---- MODULE Spec2Model ----
(***************************************************************************)
(* Model of the DeFiLlama protocol index (DefiLlamaService: TTL cache,     *)
(* retrying refresh, tiered name resolver) and of the WALLET_INFO          *)
(* multi-chain balance aggregation (fetchChainBalances, getTokenInfo,      *)
(* cdpWalletInfo.handler).                                                 *)
(***************************************************************************)
EXTENDS Integers, Sequences, FiniteSets, TLC

\* ------------------------------------------------------------------------
\* Bounds of the model
\* ------------------------------------------------------------------------
MaxCalls == 1
MaxTicks == 2
MaxCatalogLen == 2
MaxQueries == 2
MaxRaceFails == 1

\* ------------------------------------------------------------------------
\* Program constants
\* ------------------------------------------------------------------------
DefaultTtlMs == 300000
maxAttempts == 5
baseDelayMs == 500
JitterRange == 200

\* ------------------------------------------------------------------------
\* Strings: a string is a sequence of one-character strings.
\* ------------------------------------------------------------------------
NULL == <<"<null>">>
EMPTY == <<>>

Whitespace == {" "}

\* Mutant: comparison keeps the case of the letters.
LowerChar_KeepCase(ch) == ch

LowerChar(ch) ==
  CASE ch = "A" -> "a"
    [] ch = "V" -> "v"
    [] ch = "E" -> "e"
    [] OTHER -> ch

toLowerCase(s) == [i \in 1..Len(s) |-> LowerChar(s[i])]

RECURSIVE TrimStart(_)
TrimStart(s) ==
  IF s # <<>> /\ Head(s) \in Whitespace THEN TrimStart(Tail(s)) ELSE s

RECURSIVE TrimEnd(_)
TrimEnd(s) ==
  IF s # <<>> /\ s[Len(s)] \in Whitespace
  THEN TrimEnd(SubSeq(s, 1, Len(s) - 1))
  ELSE s

trim(s) == TrimEnd(TrimStart(s))

\* x || ""
OrEmpty(x) == IF x = NULL THEN EMPTY ELSE x

\* Mutant: the prefix may occur anywhere in the string.
startsWith_Anywhere(s, prefix) ==
  \E i \in 1..(Len(s) + 1) :
    /\ i + Len(prefix) - 1 <= Len(s)
    /\ SubSeq(s, i, i + Len(prefix) - 1) = prefix

startsWith(s, prefix) ==
  /\ Len(prefix) <= Len(s)
  /\ SubSeq(s, 1, Len(prefix)) = prefix

\* ------------------------------------------------------------------------
\* Resolver: the matching loop of getProtocolsByNames
\* ------------------------------------------------------------------------
NoPick == 0

\* One `for (const p of this.cache) { ...; if (cond) { picked = p; break; } }`
\* pass for the given tier, scanning from index i; yields the index picked.
TierCond(tier, p, qLower) ==
  CASE tier = 1 -> toLowerCase(OrEmpty(p.name)) = qLower
    [] tier = 2 -> LET s == toLowerCase(OrEmpty(p.symbol))
                   IN  s # EMPTY /\ s = qLower
    [] tier = 3 -> LET slug == IF OrEmpty(p.slug) # EMPTY
                               THEN toLowerCase(p.slug) ELSE EMPTY
                   IN  slug # EMPTY /\ slug = qLower
    [] tier = 4 -> startsWith(toLowerCase(OrEmpty(p.name)), qLower)
    [] tier = 5 -> LET slug == IF OrEmpty(p.slug) # EMPTY
                               THEN toLowerCase(p.slug) ELSE EMPTY
                   IN  startsWith(slug, qLower)

RECURSIVE ScanTier(_, _, _, _)
ScanTier(list, i, tier, qLower) ==
  IF i > Len(list) THEN NoPick
  ELSE IF TierCond(tier, list[i], qLower) THEN i
  ELSE ScanTier(list, i + 1, tier, qLower)

\* Mutant: the name-prefix pass runs before the exact symbol and slug passes.
TierOrder_PrefixFirst == <<1, 4, 2, 3, 5>>

\* The five passes in source order, each guarded by `if (!picked)`.
TierOrder == <<1, 2, 3, 4, 5>>

RECURSIVE PickFrom(_, _, _)
PickFrom(list, k, qLower) ==
  IF k > Len(TierOrder) THEN NoPick
  ELSE LET i == ScanTier(list, 1, TierOrder[k], qLower)
       IN  IF i # NoPick THEN i ELSE PickFrom(list, k + 1, qLower)

shapeProtocol(p) ==
  [id |-> p.id, slug |-> p.slug, name |-> p.name, symbol |-> p.symbol]

\* Optional fields of a result: <<>> when the field is absent.
Absent == <<>>
EmptyNameError == [msg |-> "Empty protocol name", arg |-> EMPTY]
NoMatchError(q) == [msg |-> "No protocol match for: ", arg |-> q]

\* Body of the `for (const raw of inputs)` loop for one input.
ResolveOne(list, raw) ==
  LET q == trim(OrEmpty(raw)) IN
  IF q = EMPTY
  THEN [id |-> q, success |-> FALSE, data |-> Absent,
        error |-> <<EmptyNameError>>]
  ELSE LET i == PickFrom(list, 1, toLowerCase(q)) IN
       IF i # NoPick
       THEN [id |-> q, success |-> TRUE, data |-> <<shapeProtocol(list[i])>>,
             error |-> Absent]
       ELSE [id |-> q, success |-> FALSE, data |-> Absent,
             error |-> <<NoMatchError(q)>>]

NotArray == << <<"<not-an-array>">> >>

\* const inputs = Array.isArray(names) ? names : []
Inputs(nms) == IF nms = NotArray THEN <<>> ELSE nms

\* Mutant: the loop stops at the first input that fails.
RECURSIVE ResolveUntilFailure(_, _, _)
ResolveUntilFailure(list, inputs, i) ==
  IF i > Len(inputs) THEN <<>>
  ELSE LET r == ResolveOne(list, inputs[i]) IN
       IF r.success THEN <<r>> \o ResolveUntilFailure(list, inputs, i + 1)
       ELSE <<r>>

ResolveAll_AbortOnFailure(list, nms) ==
  ResolveUntilFailure(list, Inputs(nms), 1)

\* Mutant: a blank input is skipped instead of getting a failure entry.
ResolveAll_SkipBlank(list, nms) ==
  LET kept == SelectSeq(Inputs(nms), LAMBDA raw : trim(OrEmpty(raw)) # EMPTY)
  IN  [i \in 1..Len(kept) |-> ResolveOne(list, kept[i])]

ResolveAll(list, nms) ==
  [i \in 1..Len(Inputs(nms)) |-> ResolveOne(list, Inputs(nms)[i])]

\* ------------------------------------------------------------------------
\* Inputs of the model: catalog records, remote responses, queries, settings
\* ------------------------------------------------------------------------
rAave == [id |-> 1, name |-> <<"A", "a", "v", "e">>, symbol |-> NULL,
          slug |-> NULL]
rAaveV2 == [id |-> 2, name |-> <<"A", "a", "v", "e", " ", "V", "2">>,
            symbol |-> EMPTY, slug |-> <<"a", "a", "v", "e", "2">>]
rSym == [id |-> 3, name |-> <<"V", "e">>, symbol |-> <<"A", "A">>,
         slug |-> EMPTY]
rSlug == [id |-> 4, name |-> NULL, symbol |-> NULL, slug |-> <<"v", "A">>]

RecordPool == {rAave, rAaveV2, rSym, rSlug}

RECURSIVE SeqsUpTo(_, _)
SeqsUpTo(S, n) ==
  IF n = 0 THEN {<<>>}
  ELSE LET shorter == SeqsUpTo(S, n - 1)
       IN  shorter \cup {Append(s, x) : s \in shorter, x \in S}

\* Every list of at most MaxCatalogLen records, in every order.
AllCatalogs == SeqsUpTo(RecordPool, MaxCatalogLen)

\* The catalog versions the remote source serves in the concurrent runs.
FewCatalogs == {<<rAave>>, <<rAaveV2, rAave>>}

qAave == <<"A", "a", "v", "e">>
qAa == <<"a", "a">>
qPadded == <<" ", "A", "A", "V", "E", " ">>
qV == <<"v">>
qVa == <<"V", "a">>
qNone == <<"z">>
qBlank == <<" ", " ">>

QueryPool == {qAave, qAa, qPadded, qV, qVa, qNone, qBlank, EMPTY, NULL}

AllNames == SeqsUpTo(QueryPool, MaxQueries) \cup {NotArray}
FewNames == {<<qAa, qNone>>}

\* DEFILLAMA_PROTOCOLS_TTL_MS as returned by runtime.getSetting.
Unset == "<unset>"
Settings == {Unset, "", "0", "60000", "-1", "abc", "Infinity"}

\* The number Infinity: above every age the clock of the model can reach.
Infinity == 2147483647

\* Number(ttlSetting): <<isNaN, value>>
NumberOf(x) ==
  CASE x = "0" -> [nan |-> FALSE, val |-> 0]
    [] x = "60000" -> [nan |-> FALSE, val |-> 60000]
    [] x = "-1" -> [nan |-> FALSE, val |-> -1]
    [] x = "" -> [nan |-> FALSE, val |-> 0]
    [] x = "Infinity" -> [nan |-> FALSE, val |-> Infinity]
    [] OTHER -> [nan |-> TRUE, val |-> 0]

\* if (ttlSetting) : undefined, null and "" are falsy
Truthy(x) == x # Unset /\ x # ""

\* ------------------------------------------------------------------------
\* State of the catalog flow
\* ------------------------------------------------------------------------
Callers == {"c1", "c2"}
Starter == "init"
Procs == Callers \cup {Starter}

StartNow == 1000000
TickDeltas == {1, DefaultTtlMs}
Jitters == {0, JitterRange - 1}
FailKinds == {"throw", "abort", "status", "badjson"}
NotAList == << [id |-> 0, name |-> NULL, symbol |-> NULL, slug |-> NULL] >>

VARIABLES
  cache,             \* this.cache
  cacheTimestampMs,  \* this.cacheTimestampMs
  ttlMs,             \* this.ttlMs
  now,               \* Date.now()
  ticks,             \* number of clock steps taken
  pc,                \* where each process is in start / getProtocolsByNames
  lp,                \* where the loadIndex run started by each process is
  attempt,           \* loadIndex: the loop variable
  wakeAt,            \* loadIndex: deadline of the pending backoff timer
  names,             \* getProtocolsByNames: the argument of the call
  results,           \* getProtocolsByNames: the returned list
  exc,               \* whether an exception reached the process
  calls,             \* calls made so far by each caller
  sawStale,          \* ensureFresh: the staleness test was true
  sawAged,           \* ensureFresh: the age exceeded the TTL
  seenGen,           \* the generation that was live when the call began
  runs,              \* loadIndex runs started within the current call
  fetches,           \* fetch attempts issued within the current call
  fails,             \* fetch attempts that failed within the current call
  fetched,           \* body and completion time of the last successful fetch
  usedGen,           \* the generation a call matched its queries against
  inflight,          \* the processes with a fetch in flight, in issue order
  overtaken,         \* in-flight fetches issued before one that has succeeded
  staleWin,          \* this.cache came from a fetch overtaken by a later one
  liveFetch          \* body and completion time of the latest successful fetch

svcVars == <<cache, cacheTimestampMs>>
clockVars == <<now, ticks>>
callVars == <<names, results, exc, calls, usedGen>>
seenVars == <<sawStale, sawAged, seenGen>>
loadVars == <<lp, attempt, wakeAt, runs, fetches, fails, fetched>>
raceVars == <<inflight, overtaken, staleWin, liveFetch>>

catalogVars == <<svcVars, ttlMs, clockVars, pc, callVars, seenVars, loadVars,
                 raceVars>>

\* State of the wallet flow (WALLET_INFO handler and its chain fetches)
VARIABLES
  rpcConfigured,     \* the chains whose process.env[rpcUrl] is set
  apiKey,            \* whether process.env.COINGECKO_API_KEY is set
  address,           \* handler: wallet.walletAddress
  hpc,               \* where the handler is
  cpc,               \* where the fetchChainBalances call of each chain is
  tokenBalances,     \* fetchChainBalances: tokensJson.result.tokenBalances
  tokIdx,            \* fetchChainBalances: position in the token loop
  nativeAmount,      \* fetchChainBalances: amount of the native asset
  balances,          \* fetchChainBalances: the list being built
  chainResult,       \* what each fetchChainBalances call resolved to
  chainFail,         \* the failure that emptied a chain, if any
  sent,              \* the requests each chain fetch has issued, in order
  got,               \* how each of those requests ended, in the same order
  callbacks,         \* the payloads handed to the callback, in order
  outcome            \* the ActionResult returned by the handler

envVars == <<rpcConfigured, apiKey, address>>
chainVars == <<cpc, tokenBalances, tokIdx, nativeAmount, balances,
               chainResult, chainFail, sent, got>>
walletVars == <<envVars, hpc, chainVars, callbacks, outcome>>

\* State of the GET_PROTOCOL_TVL action handler
VARIABLES
  tpc,               \* where the handler is
  hasCallback,       \* whether the caller passed a callback
  tvlSent,           \* the payloads handed to the callback, in order
  tvlResult          \* the ActionResult returned

tvlVars == <<tpc, hasCallback, tvlSent, tvlResult>>

\* State of the chat interface (ChatInterface component)
VARIABLES
  messages,          \* the `messages` state: the displayed list
  server,            \* the messages the channel holds, in the order posted
  loads,             \* responses of getChannelMessages still in flight
  nLoads,            \* loadMessages runs started so far
  nIncoming,         \* socket messages handled so far
  received           \* ids of the socket messages handled so far

chatVars == <<messages, server, loads, nLoads, nIncoming, received>>

vars == <<catalogVars, walletVars, tvlVars, chatVars>>

Gen(list, ts) == [list |-> list, ts |-> ts]
NoGen == Gen(<<>>, -1)
NoFetch == [body |-> <<>>, at |-> -1]

InitCatalog ==
  /\ cache = <<>>
  /\ cacheTimestampMs = 0
  /\ ttlMs = DefaultTtlMs
  /\ now = StartNow
  /\ ticks = 0
  /\ pc = [p \in Procs |-> IF p = Starter THEN "new" ELSE "idle"]
  /\ lp = [p \in Procs |-> "none"]
  /\ attempt = [p \in Procs |-> 0]
  /\ wakeAt = [p \in Procs |-> 0]
  /\ names = [p \in Procs |-> <<>>]
  /\ results = [p \in Procs |-> <<>>]
  /\ exc = [p \in Procs |-> FALSE]
  /\ calls = [p \in Procs |-> 0]
  /\ sawStale = [p \in Procs |-> FALSE]
  /\ sawAged = [p \in Procs |-> FALSE]
  /\ seenGen = [p \in Procs |-> NoGen]
  /\ runs = [p \in Procs |-> 0]
  /\ fetches = [p \in Procs |-> 0]
  /\ fails = [p \in Procs |-> 0]
  /\ fetched = [p \in Procs |-> NoFetch]
  /\ usedGen = [p \in Procs |-> NoGen]
  /\ inflight = <<>>
  /\ overtaken = {}
  /\ staleWin = FALSE
  /\ liveFetch = [body |-> <<>>, at |-> 0]

\* ------------------------------------------------------------------------
\* Operations of the catalog flow
\* ------------------------------------------------------------------------
Max(a, b) == IF a >= b THEN a ELSE b

\* 2^n
RECURSIVE Pow2(_)
Pow2(n) == IF n = 0 THEN 1 ELSE 2 * Pow2(n - 1)

\* Mutant: the delay grows linearly with the attempt.
Backoff_Linear(att, jitter) == baseDelayMs * att + jitter

\* baseDelayMs * Math.pow(2, attempt - 1) + Math.floor(Math.random() * 200)
Backoff(att, jitter) == baseDelayMs * Pow2(att - 1) + jitter

Without(seq, p) == SelectSeq(seq, LAMBDA x : x # p)

\* The processes whose in-flight fetch was issued before that of p.
IssuedBefore(p) ==
  {inflight[i] : i \in {j \in 1..Len(inflight) :
                          \E k \in (j + 1)..Len(inflight) : inflight[k] = p}}

\* Mutant: a generation whose age equals the TTL counts as too old.
IsAged_AtTtl == now - cacheTimestampMs >= ttlMs

\* ensureFresh: the staleness test
IsAged == now - cacheTimestampMs > ttlMs
IsStale == Len(cache) = 0 \/ IsAged

\* The part of loadIndex up to its first `await fetch(...)`: the loop is
\* entered with attempt = 1 and the request is sent.
BeginLoad(p) ==
  /\ lp' = [lp EXCEPT ![p] = "fetch"]
  /\ attempt' = [attempt EXCEPT ![p] = 1]
  /\ runs' = [runs EXCEPT ![p] = @ + 1]
  /\ fetches' = [fetches EXCEPT ![p] = @ + 1]
  /\ inflight' = Append(inflight, p)

\* The caller of loadIndex awaits it.
AwaitLoad(p) == pc' = [pc EXCEPT ![p] = "await"]

\* An awaited loadIndex has returned: its caller is resumed.
Resumed(p) == IF pc[p] = "await" THEN [pc EXCEPT ![p] = "resume"] ELSE pc

\* DefiLlamaService.start -> initialize: read the TTL override, then
\* `await this.loadIndex()`.
Initialize(setting) ==
  /\ pc[Starter] = "new"
  /\ ttlMs' = IF Truthy(setting)
                 /\ ~NumberOf(setting).nan /\ NumberOf(setting).val >= 0
              THEN NumberOf(setting).val
              ELSE ttlMs
  /\ seenGen' = [seenGen EXCEPT ![Starter] = Gen(cache, cacheTimestampMs)]
  /\ BeginLoad(Starter)
  /\ AwaitLoad(Starter)
  /\ UNCHANGED <<svcVars, clockVars, callVars, sawStale, sawAged, wakeAt,
                 fails, fetched, overtaken, staleWin, liveFetch>>
  /\ UNCHANGED <<walletVars, tvlVars, chatVars>>

\* start returns the service once initialize has resolved.
Started ==
  /\ pc[Starter] = "resume"
  /\ pc' = [pc EXCEPT ![Starter] = "started"]
  /\ lp' = [lp EXCEPT ![Starter] = "none"]
  /\ seenGen' = [seenGen EXCEPT ![Starter] = NoGen]
  /\ attempt' = [attempt EXCEPT ![Starter] = 0]
  /\ runs' = [runs EXCEPT ![Starter] = 0]
  /\ fetches' = [fetches EXCEPT ![Starter] = 0]
  /\ fails' = [fails EXCEPT ![Starter] = 0]
  /\ fetched' = [fetched EXCEPT ![Starter] = NoFetch]
  /\ wakeAt' = [wakeAt EXCEPT ![Starter] = 0]
  /\ UNCHANGED <<svcVars, ttlMs, clockVars, callVars, sawStale, sawAged,
                 raceVars>>
  /\ UNCHANGED <<walletVars, tvlVars, chatVars>>

\* Mutant: loadIndex is started but not awaited.
ensureFresh_NoAwait(c) ==
  /\ sawStale' = [sawStale EXCEPT ![c] = IsStale]
  /\ sawAged' = [sawAged EXCEPT ![c] = IsAged]
  /\ pc' = [pc EXCEPT ![c] = "resume"]
  /\ IF IsStale
     THEN BeginLoad(c)
     ELSE UNCHANGED <<lp, attempt, runs, fetches, inflight>>

\* Mutant: a single-flight guard, a caller that finds a refresh already
\* running starts none of its own.
ensureFresh_SingleFlight(c) ==
  /\ sawStale' = [sawStale EXCEPT ![c] = IsStale]
  /\ sawAged' = [sawAged EXCEPT ![c] = IsAged]
  /\ IF IsStale /\ \A p \in Procs : lp[p] \notin {"fetch", "backoff"}
     THEN /\ BeginLoad(c)
          /\ AwaitLoad(c)
     ELSE /\ pc' = [pc EXCEPT ![c] = "resume"]
          /\ UNCHANGED <<lp, attempt, runs, fetches, inflight>>

\* Mutant: every call refreshes, whatever the state of the generation.
ensureFresh_Always(c) ==
  /\ sawStale' = [sawStale EXCEPT ![c] = IsStale]
  /\ sawAged' = [sawAged EXCEPT ![c] = IsAged]
  /\ BeginLoad(c)
  /\ AwaitLoad(c)

\* ensureFresh: tests the generation and, when it is empty or too old,
\* awaits loadIndex; otherwise it resolves at once.
ensureFresh(c) ==
  /\ sawStale' = [sawStale EXCEPT ![c] = IsStale]
  /\ sawAged' = [sawAged EXCEPT ![c] = IsAged]
  /\ IF IsStale
     THEN /\ BeginLoad(c)
          /\ AwaitLoad(c)
     ELSE /\ pc' = [pc EXCEPT ![c] = "resume"]
          /\ UNCHANGED <<lp, attempt, runs, fetches, inflight>>

\* getProtocolsByNames up to its first suspension, `await this.ensureFresh()`.
CallSvc(c, nms) ==
  /\ pc[Starter] = "started"
  /\ pc[c] = "idle"
  /\ calls[c] < MaxCalls
  /\ calls' = [calls EXCEPT ![c] = @ + 1]
  /\ names' = [names EXCEPT ![c] = nms]
  /\ seenGen' = [seenGen EXCEPT ![c] = Gen(cache, cacheTimestampMs)]
  /\ ensureFresh(c)
  /\ UNCHANGED <<svcVars, ttlMs, clockVars, results, exc, usedGen, wakeAt,
                 fails, fetched, overtaken, staleWin, liveFetch>>
  /\ UNCHANGED <<walletVars, chatVars>>

\* A call of getProtocolsByNames made by some other caller of the service.
Call(c, nms) ==
  /\ CallSvc(c, nms)
  /\ UNCHANGED tvlVars

\* Mutant: a body that is no list leaves the live list as it is.
ArrayOrEmpty_KeepOld(body) == IF body = NotAList THEN cache ELSE body

\* this.cache = Array.isArray(list) ? list : []
ArrayOrEmpty(body) == IF body = NotAList THEN <<>> ELSE body

\* Mutant: the timestamp of the generation is not set.
FetchOk_NoTimestamp(p, body, lat) ==
  /\ lp[p] = "fetch"
  /\ now' = now + lat
  /\ cache' = ArrayOrEmpty(body)
  /\ lp' = [lp EXCEPT ![p] = "loaded"]
  /\ pc' = Resumed(p)
  /\ fetched' = [fetched EXCEPT ![p] = [body |-> body, at |-> now']]
  /\ inflight' = Without(inflight, p)
  /\ overtaken' = (overtaken \ {p}) \cup IssuedBefore(p)
  /\ staleWin' = (p \in overtaken)
  /\ liveFetch' = [body |-> body, at |-> now']
  /\ UNCHANGED <<cacheTimestampMs, ttlMs, ticks, callVars, seenVars, attempt,
                 wakeAt, runs, fetches, fails>>
  /\ UNCHANGED <<walletVars, tvlVars, chatVars>>

\* Mutant: the fetched records are pushed into the live list in place.
FetchOk_InPlace(p, body, lat) ==
  /\ lp[p] = "fetch"
  /\ now' = now + lat
  /\ cache' = cache \o ArrayOrEmpty(body)
  /\ cacheTimestampMs' = now'
  /\ lp' = [lp EXCEPT ![p] = "loaded"]
  /\ pc' = Resumed(p)
  /\ fetched' = [fetched EXCEPT ![p] = [body |-> body, at |-> now']]
  /\ inflight' = Without(inflight, p)
  /\ overtaken' = (overtaken \ {p}) \cup IssuedBefore(p)
  /\ staleWin' = (p \in overtaken)
  /\ liveFetch' = [body |-> body, at |-> now']
  /\ UNCHANGED <<ttlMs, ticks, callVars, seenVars, attempt, wakeAt, runs,
                 fetches, fails>>
  /\ UNCHANGED <<walletVars, tvlVars, chatVars>>

\* A fetch resolves with a success status and a body that parses (a list of
\* records or some other JSON value): the generation is replaced and
\* loadIndex returns.
FetchOk(p, body, lat) ==
  /\ lp[p] = "fetch"
  /\ now' = now + lat
  /\ cache' = ArrayOrEmpty(body)
  /\ cacheTimestampMs' = now'
  /\ lp' = [lp EXCEPT ![p] = "loaded"]
  /\ pc' = Resumed(p)
  /\ fetched' = [fetched EXCEPT ![p] = [body |-> body, at |-> now']]
  /\ inflight' = Without(inflight, p)
  /\ overtaken' = (overtaken \ {p}) \cup IssuedBefore(p)
  /\ staleWin' = (p \in overtaken)
  /\ liveFetch' = [body |-> body, at |-> now']
  /\ UNCHANGED <<ttlMs, ticks, callVars, seenVars, attempt, wakeAt, runs,
                 fetches, fails>>
  /\ UNCHANGED <<walletVars, tvlVars, chatVars>>

\* Mutant: the last failed attempt rethrows instead of breaking out.
FetchFail_Rethrow(p, kind, jitter, lat) ==
  /\ lp[p] = "fetch"
  /\ kind \in FailKinds
  /\ now' = now + lat
  /\ fails' = [fails EXCEPT ![p] = @ + 1]
  /\ IF attempt[p] = maxAttempts
     THEN /\ lp' = [lp EXCEPT ![p] = "gaveup"]
          /\ pc' = [pc EXCEPT ![p] = "threw"]
          /\ exc' = [exc EXCEPT ![p] = TRUE]
          /\ UNCHANGED wakeAt
     ELSE /\ wakeAt' = [wakeAt EXCEPT ![p] = now' + Backoff(attempt[p], jitter)]
          /\ lp' = [lp EXCEPT ![p] = "backoff"]
          /\ UNCHANGED <<pc, exc>>
  /\ inflight' = Without(inflight, p)
  /\ overtaken' = overtaken \ {p}
  /\ UNCHANGED <<svcVars, ttlMs, ticks, names, results, calls, usedGen,
                 seenVars, attempt, runs, fetches, fetched, staleWin, liveFetch>>
  /\ UNCHANGED <<walletVars, tvlVars, chatVars>>

\* Mutant: negative caching, a refresh that gives up stamps the generation
\* with the time of the failure.
FetchFail_NegativeCache(p, kind, jitter, lat) ==
  /\ lp[p] = "fetch"
  /\ kind \in FailKinds
  /\ now' = now + lat
  /\ fails' = [fails EXCEPT ![p] = @ + 1]
  /\ IF attempt[p] = maxAttempts
     THEN /\ lp' = [lp EXCEPT ![p] = "gaveup"]
          /\ pc' = Resumed(p)
          /\ cacheTimestampMs' = now'
          /\ UNCHANGED wakeAt
     ELSE /\ wakeAt' = [wakeAt EXCEPT ![p] = now' + Backoff(attempt[p], jitter)]
          /\ lp' = [lp EXCEPT ![p] = "backoff"]
          /\ UNCHANGED <<pc, cacheTimestampMs>>
  /\ inflight' = Without(inflight, p)
  /\ overtaken' = overtaken \ {p}
  /\ UNCHANGED <<cache, ttlMs, ticks, callVars, seenVars, attempt, runs,
                 fetches, fetched, staleWin, liveFetch>>
  /\ UNCHANGED <<walletVars, tvlVars, chatVars>>

\* A fetch fails: the request throws, is aborted after 15 s, answers with a
\* non-success status, or its body does not parse.  All four reach the
\* catch: the last attempt breaks out of the loop and loadIndex returns, the
\* others start the backoff timer.
FetchFail(p, kind, jitter, lat) ==
  /\ lp[p] = "fetch"
  /\ kind \in FailKinds
  /\ now' = now + lat
  /\ fails' = [fails EXCEPT ![p] = @ + 1]
  /\ IF attempt[p] = maxAttempts
     THEN /\ lp' = [lp EXCEPT ![p] = "gaveup"]
          /\ pc' = Resumed(p)
          /\ UNCHANGED wakeAt
     ELSE /\ wakeAt' = [wakeAt EXCEPT ![p] = now' + Backoff(attempt[p], jitter)]
          /\ lp' = [lp EXCEPT ![p] = "backoff"]
          /\ UNCHANGED pc
  /\ inflight' = Without(inflight, p)
  /\ overtaken' = overtaken \ {p}
  /\ UNCHANGED <<svcVars, ttlMs, ticks, callVars, seenVars, attempt, runs,
                 fetches, fetched, staleWin, liveFetch>>
  /\ UNCHANGED <<walletVars, tvlVars, chatVars>>

\* The backoff timer fires (timers fire in deadline order, never early) and
\* the loop issues the next attempt.
TimerFire(p) ==
  /\ lp[p] = "backoff"
  /\ \A r \in Procs : lp[r] = "backoff" => wakeAt[p] <= wakeAt[r]
  /\ now' = Max(now, wakeAt[p])
  /\ attempt' = [attempt EXCEPT ![p] = @ + 1]
  /\ fetches' = [fetches EXCEPT ![p] = @ + 1]
  /\ inflight' = Append(inflight, p)
  /\ lp' = [lp EXCEPT ![p] = "fetch"]
  /\ UNCHANGED <<svcVars, ttlMs, ticks, pc, callVars, seenVars, wakeAt, runs,
                 fails, fetched, overtaken, staleWin, liveFetch>>
  /\ UNCHANGED <<walletVars, tvlVars, chatVars>>

\* Mutant: the first query is matched against the generation that was live
\* when the call began, the others against the one live after the refresh.
Match_SplitAcrossRefresh(c) ==
  /\ c \in Callers
  /\ pc[c] = "resume"
  /\ results' = [results EXCEPT ![c] =
                   [i \in 1..Len(Inputs(names[c])) |->
                      ResolveOne(IF i = 1 THEN seenGen[c].list ELSE cache,
                                 Inputs(names[c])[i])]]
  /\ usedGen' = [usedGen EXCEPT ![c] = Gen(cache, cacheTimestampMs)]
  /\ pc' = [pc EXCEPT ![c] = "done"]
  /\ UNCHANGED <<svcVars, ttlMs, clockVars, names, exc, calls, seenVars,
                 loadVars, raceVars>>
  /\ UNCHANGED <<walletVars, tvlVars, chatVars>>

\* getProtocolsByNames after `await this.ensureFresh()`: the whole matching
\* loop runs without suspension and the list is returned.
Match(c) ==
  /\ c \in Callers
  /\ pc[c] = "resume"
  /\ results' = [results EXCEPT ![c] = ResolveAll(cache, names[c])]
  /\ usedGen' = [usedGen EXCEPT ![c] = Gen(cache, cacheTimestampMs)]
  /\ pc' = [pc EXCEPT ![c] = "done"]
  /\ UNCHANGED <<svcVars, ttlMs, clockVars, names, exc, calls, seenVars,
                 loadVars, raceVars>>
  /\ UNCHANGED <<walletVars, tvlVars, chatVars>>

\* The caller has consumed the answer and may call again.
Finish(c) ==
  /\ c \in Callers
  /\ pc[c] = "done"
  /\ lp[c] \in {"none", "loaded", "gaveup"}
  /\ pc' = [pc EXCEPT ![c] = "idle"]
  /\ lp' = [lp EXCEPT ![c] = "none"]
  /\ names' = [names EXCEPT ![c] = <<>>]
  /\ results' = [results EXCEPT ![c] = <<>>]
  /\ usedGen' = [usedGen EXCEPT ![c] = NoGen]
  /\ sawStale' = [sawStale EXCEPT ![c] = FALSE]
  /\ sawAged' = [sawAged EXCEPT ![c] = FALSE]
  /\ seenGen' = [seenGen EXCEPT ![c] = NoGen]
  /\ attempt' = [attempt EXCEPT ![c] = 0]
  /\ runs' = [runs EXCEPT ![c] = 0]
  /\ fetches' = [fetches EXCEPT ![c] = 0]
  /\ fails' = [fails EXCEPT ![c] = 0]
  /\ fetched' = [fetched EXCEPT ![c] = NoFetch]
  /\ wakeAt' = [wakeAt EXCEPT ![c] = 0]
  /\ UNCHANGED <<svcVars, ttlMs, clockVars, exc, calls, raceVars>>
  /\ UNCHANGED <<walletVars, tvlVars, chatVars>>

\* Time passes.
Tick(d) ==
  /\ ticks < MaxTicks
  /\ ticks' = ticks + 1
  /\ now' = now + d
  /\ UNCHANGED <<svcVars, ttlMs, pc, callVars, seenVars, loadVars, raceVars>>
  /\ UNCHANGED <<walletVars, tvlVars, chatVars>>

\* ------------------------------------------------------------------------
\* Wallet flow: inputs
\* ------------------------------------------------------------------------
\* const chains: ChainNetwork[] = ['base', 'ethereum', 'polygon']
chains == <<"base", "ethereum", "polygon">>
ChainSet == {chains[i] : i \in 1..Len(chains)}

\* CHAIN_CONFIGS[chain].nativeToken
NativeToken(ch) ==
  IF ch = "polygon" THEN [symbol |-> "MATIC", name |-> "Polygon"]
  ELSE [symbol |-> "ETH", name |-> "Ethereum"]

Address == "0xWallet"
\* wallet.walletAddress when the wallet lookup left it unset.
Undefined == "<undefined>"

\* A raw balance (a BigInt): digits * 10^zeros base units.
Raw(digits, zeros) == [digits |-> digits, zeros |-> zeros]
IsZeroRaw(raw) == raw.digits = 0

RECURSIVE Pow10(_)
Pow10(n) == IF n = 0 THEN 1 ELSE 10 * Pow10(n - 1)

\* Number(formatUnits(raw, decimals)), for balances that are whole numbers
\* of tokens.
formatUnits(raw, decimals) ==
  IF raw.zeros >= decimals
  THEN raw.digits * Pow10(raw.zeros - decimals)
  ELSE (raw.digits * Pow10(raw.zeros)) \div Pow10(decimals)

\* amount.toFixed(6): the decimal string of a whole amount.
toFixed6(amount) == [whole |-> amount, fraction |-> "000000"]

toUpperCase(sym) ==
  CASE sym = "usdc" -> "USDC"
    [] sym = "dai" -> "DAI"
    [] OTHER -> sym

\* Entries of alchemy_getTokenBalances; a malformed balance is one that
\* BigInt() rejects.
Malformed == Raw(-1, 0)
tokA == [contractAddress |-> "0xA", tokenBalance |-> Raw(1, 6)]
tokB == [contractAddress |-> "0xB", tokenBalance |-> Raw(3, 18)]
tokZero == [contractAddress |-> "0xZ", tokenBalance |-> Raw(0, 0)]
tokBad == [contractAddress |-> "0xBad", tokenBalance |-> Malformed]

TokenLists == {<<>>, <<tokA>>, <<tokZero, tokBad, tokB>>}
MoreTokenLists == TokenLists \cup {<<tokA, tokBad, tokB>>, <<tokB, tokZero, tokA>>}

\* What the pricing API answers for a contract, and what the contract's
\* metadata reads answer; 0 and "" stand for a field the answer lacks.
CgInfo(addr) ==
  IF addr = "0xA"
  THEN [symbol |-> "usdc", name |-> "USD Coin", decimals |-> 6, usd |-> 100]
  ELSE [symbol |-> "dai", name |-> "Dai", decimals |-> 0, usd |-> 20]

ChainMeta(addr) ==
  IF addr = "0xA"
  THEN [symbol |-> "usdc", name |-> "USD Coin", decimals |-> 6]
  ELSE [symbol |-> "dai", name |-> "Dai", decimals |-> 18]

NativeRaws == {Raw(0, 0), Raw(2, 18)}
NativeUsd == {0, 50}

NoOutcome == [success |-> FALSE, kind |-> "none"]

WalletAtRest ==
  /\ hpc = "idle"
  /\ cpc = [ch \in ChainSet |-> "idle"]
  /\ tokenBalances = [ch \in ChainSet |-> <<>>]
  /\ tokIdx = [ch \in ChainSet |-> 0]
  /\ nativeAmount = [ch \in ChainSet |-> 0]
  /\ balances = [ch \in ChainSet |-> <<>>]
  /\ chainResult = [ch \in ChainSet |-> <<>>]
  /\ chainFail = [ch \in ChainSet |-> "none"]
  /\ sent = [ch \in ChainSet |-> <<>>]
  /\ got = [ch \in ChainSet |-> <<>>]
  /\ callbacks = <<>>
  /\ outcome = NoOutcome

\* The wallet flow at rest in a fully configured environment.
InitWallet ==
  /\ rpcConfigured = ChainSet
  /\ apiKey = TRUE
  /\ address = Undefined
  /\ WalletAtRest

\* ------------------------------------------------------------------------
\* Wallet flow: fetchChainBalances
\* ------------------------------------------------------------------------
Req(kind, addr) == [kind |-> kind, addr |-> addr]
NoAddress == ""

\* Failures that reach the catch of fetchChainBalances, and those that
\* return [] directly.
ThrownKinds == {"throw", "badjson", "badnative"}
ReturnedKinds == {"status", "rpcerror"}

\* Mutant: the catch of fetchChainBalances rethrows.
FailChain_Rethrow(ch, kind) ==
  /\ cpc' = [cpc EXCEPT ![ch] =
               IF kind \in ThrownKinds THEN "rejected" ELSE "returned"]
  /\ chainResult' = [chainResult EXCEPT ![ch] = <<>>]
  /\ chainFail' = [chainFail EXCEPT ![ch] = kind]

\* `return []` after a non-success status or an RPC error, and the catch
\* around the whole body: the chain resolves to an empty list.
FailChain(ch, kind) ==
  /\ cpc' = [cpc EXCEPT ![ch] = "returned"]
  /\ chainResult' = [chainResult EXCEPT ![ch] = <<>>]
  /\ chainFail' = [chainFail EXCEPT ![ch] = kind]

\* Mutant: entries with a zero balance are resolved and priced like the rest.
RECURSIVE NextPriced_KeepZero(_, _)
NextPriced_KeepZero(list, i) ==
  IF i > Len(list) THEN i
  ELSE IF list[i].tokenBalance = Malformed
  THEN NextPriced_KeepZero(list, i + 1)
  ELSE i

\* The token loop from position i up to its next suspension: entries with
\* a zero balance are skipped by `continue`, entries whose balance BigInt()
\* rejects are skipped by the catch inside the loop.
RECURSIVE NextPriced(_, _)
NextPriced(list, i) ==
  IF i > Len(list) THEN i
  ELSE IF list[i].tokenBalance = Malformed THEN NextPriced(list, i + 1)
  ELSE IF IsZeroRaw(list[i].tokenBalance) THEN NextPriced(list, i + 1)
  ELSE i

\* Mutant: the list being built is one array shared by all chain fetches.
TokenLoop_Shared(ch, list, bal, i) ==
  LET k == NextPriced(list, i) IN
  /\ tokIdx' = [tokIdx EXCEPT ![ch] = k]
  /\ balances' = [c \in ChainSet |-> bal]
  /\ IF k > Len(list)
     THEN /\ cpc' = [cpc EXCEPT ![ch] = "returned"]
          /\ chainResult' = [chainResult EXCEPT ![ch] = bal]
          /\ UNCHANGED sent
     ELSE /\ cpc' = [cpc EXCEPT ![ch] = IF apiKey THEN "cg" ELSE "onchain"]
          /\ sent' = [sent EXCEPT ![ch] =
                        Append(@, Req(IF apiKey THEN "cg" ELSE "onchain",
                                      list[k].contractAddress))]
          /\ UNCHANGED chainResult

\* Continue fetchChainBalances with the token at position i: either
\* getTokenInfo sends its first request (the pricing API when a key is set,
\* the metadata reads otherwise) or the loop is over and balances is
\* returned.
TokenLoop(ch, list, bal, i) ==
  LET k == NextPriced(list, i) IN
  /\ tokIdx' = [tokIdx EXCEPT ![ch] = k]
  /\ balances' = [balances EXCEPT ![ch] = bal]
  /\ IF k > Len(list)
     THEN /\ cpc' = [cpc EXCEPT ![ch] = "returned"]
          /\ chainResult' = [chainResult EXCEPT ![ch] = bal]
          /\ UNCHANGED sent
     ELSE /\ cpc' = [cpc EXCEPT ![ch] = IF apiKey THEN "cg" ELSE "onchain"]
          /\ sent' = [sent EXCEPT ![ch] =
                        Append(@, Req(IF apiKey THEN "cg" ELSE "onchain",
                                      list[k].contractAddress))]
          /\ UNCHANGED chainResult

\* The entry pushed for a token once getTokenInfo has answered.
TokenEntry(ch, tok, info) ==
  LET amount == formatUnits(tok.tokenBalance, info.decimals) IN
  [symbol |-> info.symbol, name |-> info.name, balance |-> toFixed6(amount),
   usdValue |-> amount * info.price, contractAddress |-> tok.contractAddress,
   chain |-> ch, decimals |-> info.decimals]

\* The entry pushed for the native asset.
NativeEntry(ch, amount, price) ==
  [symbol |-> NativeToken(ch).symbol, name |-> NativeToken(ch).name,
   balance |-> toFixed6(amount), usdValue |-> amount * price,
   contractAddress |-> NoAddress, chain |-> ch, decimals |-> 18]

\* Mutant: a transport error of the token-balance request is retried once.
TokensResp_RetryOnce(ch, out, list) ==
  /\ cpc[ch] = "tokens"
  /\ out \in {"ok"} \cup {"throw", "status", "badjson", "rpcerror"}
  /\ IF out = "ok"
     THEN /\ tokenBalances' = [tokenBalances EXCEPT ![ch] = list]
          /\ cpc' = [cpc EXCEPT ![ch] = "native"]
          /\ sent' = [sent EXCEPT ![ch] = Append(@, Req("native", NoAddress))]
          /\ UNCHANGED <<chainResult, chainFail>>
     ELSE IF out = "throw" /\ Len(sent[ch]) = 1
     THEN /\ sent' = [sent EXCEPT ![ch] = Append(@, Req("tokens", NoAddress))]
          /\ UNCHANGED <<tokenBalances, cpc, chainResult, chainFail>>
     ELSE /\ FailChain(ch, out)
          /\ UNCHANGED <<tokenBalances, sent>>
  /\ UNCHANGED <<tokIdx, nativeAmount, balances>>
  /\ got' = [got EXCEPT ![ch] = Append(@, out)]
  /\ UNCHANGED <<envVars, hpc, callbacks, outcome>>
  /\ UNCHANGED <<catalogVars, tvlVars, chatVars>>

\* The alchemy_getTokenBalances request completes.
TokensResp(ch, out, list) ==
  /\ cpc[ch] = "tokens"
  /\ out \in {"ok"} \cup {"throw", "status", "badjson", "rpcerror"}
  /\ IF out = "ok"
     THEN /\ tokenBalances' = [tokenBalances EXCEPT ![ch] = list]
          /\ cpc' = [cpc EXCEPT ![ch] = "native"]
          /\ sent' = [sent EXCEPT ![ch] = Append(@, Req("native", NoAddress))]
          /\ UNCHANGED <<chainResult, chainFail>>
     ELSE /\ FailChain(ch, out)
          /\ UNCHANGED <<tokenBalances, sent>>
  /\ UNCHANGED <<tokIdx, nativeAmount, balances>>
  /\ got' = [got EXCEPT ![ch] = Append(@, out)]
  /\ UNCHANGED <<envVars, hpc, callbacks, outcome>>
  /\ UNCHANGED <<catalogVars, tvlVars, chatVars>>

\* Mutant: a native-balance request that throws is taken as a zero balance
\* and the tokens already fetched are still processed.
NativeResp_ThrowKeepsTokens(ch, out, raw) ==
  /\ cpc[ch] = "native"
  /\ out \in {"ok"} \cup ReturnedKinds \cup ThrownKinds
  /\ IF out = "ok" /\ ~IsZeroRaw(raw)
     THEN /\ nativeAmount' = [nativeAmount EXCEPT ![ch] = formatUnits(raw, 18)]
          /\ cpc' = [cpc EXCEPT ![ch] = "price"]
          /\ sent' = [sent EXCEPT ![ch] = Append(@, Req("price", NoAddress))]
          /\ UNCHANGED <<tokIdx, balances, chainResult, chainFail>>
     ELSE /\ TokenLoop(ch, tokenBalances[ch], <<>>, 1)
          /\ UNCHANGED <<nativeAmount, chainFail>>
  /\ UNCHANGED tokenBalances
  /\ got' = [got EXCEPT ![ch] = Append(@, out)]
  /\ UNCHANGED <<envVars, hpc, callbacks, outcome>>
  /\ UNCHANGED <<catalogVars, tvlVars, chatVars>>

\* The eth_getBalance request completes.  Its status is not looked at: a
\* body without a result (a non-success status or an RPC error with a JSON
\* body) reads as the balance '0'.  A positive balance asks for the native
\* price, a zero balance goes on to the token loop; a transport error, an
\* unparsable body or a result BigInt() rejects reaches the catch.
NativeResp(ch, out, raw) ==
  /\ cpc[ch] = "native"
  /\ out \in {"ok"} \cup ReturnedKinds \cup ThrownKinds
  /\ IF out \in ThrownKinds
     THEN /\ FailChain(ch, out)
          /\ UNCHANGED <<tokIdx, nativeAmount, balances, sent>>
     ELSE IF out = "ok" /\ ~IsZeroRaw(raw)
     THEN /\ nativeAmount' = [nativeAmount EXCEPT ![ch] = formatUnits(raw, 18)]
          /\ cpc' = [cpc EXCEPT ![ch] = "price"]
          /\ sent' = [sent EXCEPT ![ch] = Append(@, Req("price", NoAddress))]
          /\ UNCHANGED <<tokIdx, balances, chainResult, chainFail>>
     ELSE /\ TokenLoop(ch, tokenBalances[ch], <<>>, 1)
          /\ UNCHANGED <<nativeAmount, chainFail>>
  /\ UNCHANGED tokenBalances
  /\ got' = [got EXCEPT ![ch] = Append(@, out)]
  /\ UNCHANGED <<envVars, hpc, callbacks, outcome>>
  /\ UNCHANGED <<catalogVars, tvlVars, chatVars>>

\* Mutant: a failed native price lookup fails the whole chain fetch.
PriceResp_FailEmptiesChain(ch, out, usd) ==
  /\ cpc[ch] = "price"
  /\ out \in {"ok", "throw"}
  /\ IF out = "ok"
     THEN /\ TokenLoop(ch, tokenBalances[ch],
                       <<NativeEntry(ch, nativeAmount[ch], usd)>>, 1)
          /\ UNCHANGED chainFail
     ELSE /\ FailChain(ch, "throw")
          /\ UNCHANGED <<tokIdx, balances, sent>>
  /\ UNCHANGED <<tokenBalances, nativeAmount>>
  /\ got' = [got EXCEPT ![ch] = Append(@, out)]
  /\ UNCHANGED <<envVars, hpc, callbacks, outcome>>
  /\ UNCHANGED <<catalogVars, tvlVars, chatVars>>

\* The native price request completes (or throws: the price stays 0); the
\* native entry is pushed and the token loop starts.
PriceResp(ch, out, usd) ==
  /\ cpc[ch] = "price"
  /\ out \in {"ok", "throw"}
  /\ LET price == IF out = "ok" THEN usd ELSE 0 IN
     TokenLoop(ch, tokenBalances[ch],
               <<NativeEntry(ch, nativeAmount[ch], price)>>, 1)
  /\ UNCHANGED <<tokenBalances, nativeAmount, chainFail>>
  /\ got' = [got EXCEPT ![ch] = Append(@, out)]
  /\ UNCHANGED <<envVars, hpc, callbacks, outcome>>
  /\ UNCHANGED <<catalogVars, tvlVars, chatVars>>

\* Mutant: a pricing failure gives up on the token without the metadata
\* reads.
CgResp_NoFallback(ch, out) ==
  /\ cpc[ch] = "cg"
  /\ out \in {"ok", "notok", "throw"}
  /\ LET tok == tokenBalances[ch][tokIdx[ch]]
         cg == CgInfo(tok.contractAddress)
         info == [symbol |-> toUpperCase(cg.symbol),
                  name |-> IF cg.name = "" THEN "Unknown Token" ELSE cg.name,
                  decimals |-> IF cg.decimals = 0 THEN 18 ELSE cg.decimals,
                  price |-> cg.usd]
     IN  TokenLoop(ch, tokenBalances[ch],
                   IF out = "ok"
                   THEN Append(balances[ch], TokenEntry(ch, tok, info))
                   ELSE balances[ch],
                   tokIdx[ch] + 1)
  /\ UNCHANGED <<tokenBalances, nativeAmount, chainFail>>
  /\ got' = [got EXCEPT ![ch] = Append(@, out)]
  /\ UNCHANGED <<envVars, hpc, callbacks, outcome>>
  /\ UNCHANGED <<catalogVars, tvlVars, chatVars>>

\* getTokenInfo: the pricing API answers for the current token.  A success
\* response yields the token's entry; a non-success response or an error
\* falls through to the metadata reads.
CgResp(ch, out) ==
  /\ cpc[ch] = "cg"
  /\ out \in {"ok", "notok", "throw"}
  /\ LET tok == tokenBalances[ch][tokIdx[ch]]
         cg == CgInfo(tok.contractAddress)
         info == [symbol |-> toUpperCase(cg.symbol),
                  name |-> IF cg.name = "" THEN "Unknown Token" ELSE cg.name,
                  decimals |-> IF cg.decimals = 0 THEN 18 ELSE cg.decimals,
                  price |-> cg.usd]
     IN  IF out = "ok"
         THEN TokenLoop(ch, tokenBalances[ch],
                        Append(balances[ch], TokenEntry(ch, tok, info)),
                        tokIdx[ch] + 1)
         ELSE /\ cpc' = [cpc EXCEPT ![ch] = "onchain"]
              /\ sent' = [sent EXCEPT ![ch] =
                            Append(@, Req("onchain", tok.contractAddress))]
              /\ UNCHANGED <<tokIdx, balances, chainResult>>
  /\ UNCHANGED <<tokenBalances, nativeAmount, chainFail>>
  /\ got' = [got EXCEPT ![ch] = Append(@, out)]
  /\ UNCHANGED <<envVars, hpc, callbacks, outcome>>
  /\ UNCHANGED <<catalogVars, tvlVars, chatVars>>

\* Mutant: a token without metadata fails the whole chain fetch.
OnchainResp_FailEmptiesChain(ch, out) ==
  /\ cpc[ch] = "onchain"
  /\ out \in {"ok", "fail"}
  /\ LET tok == tokenBalances[ch][tokIdx[ch]]
         meta == ChainMeta(tok.contractAddress)
         info == [symbol |-> toUpperCase(meta.symbol), name |-> meta.name,
                  decimals |-> IF meta.decimals = 0 THEN 18
                               ELSE meta.decimals,
                  price |-> 0]
     IN  IF out = "ok"
         THEN /\ TokenLoop(ch, tokenBalances[ch],
                           Append(balances[ch], TokenEntry(ch, tok, info)),
                           tokIdx[ch] + 1)
              /\ UNCHANGED chainFail
         ELSE /\ FailChain(ch, "throw")
              /\ UNCHANGED <<tokIdx, balances, sent>>
  /\ UNCHANGED <<tokenBalances, nativeAmount>>
  /\ got' = [got EXCEPT ![ch] = Append(@, out)]
  /\ UNCHANGED <<envVars, hpc, callbacks, outcome>>
  /\ UNCHANGED <<catalogVars, tvlVars, chatVars>>

\* getTokenInfo: the three metadata reads complete.  When all succeed the
\* token is entered with price 0; when one fails getTokenInfo returns null
\* and the token is left out.
OnchainResp(ch, out) ==
  /\ cpc[ch] = "onchain"
  /\ out \in {"ok", "fail"}
  /\ LET tok == tokenBalances[ch][tokIdx[ch]]
         meta == ChainMeta(tok.contractAddress)
         info == [symbol |-> toUpperCase(IF meta.symbol = "" THEN "UNKNOWN"
                                                 ELSE meta.symbol),
                  name |-> IF meta.name = "" THEN "Unknown Token"
                           ELSE meta.name,
                  decimals |-> IF meta.decimals = 0 THEN 18
                               ELSE meta.decimals,
                  price |-> 0]
     IN  TokenLoop(ch, tokenBalances[ch],
                   IF out = "ok"
                   THEN Append(balances[ch], TokenEntry(ch, tok, info))
                   ELSE balances[ch],
                   tokIdx[ch] + 1)
  /\ UNCHANGED <<tokenBalances, nativeAmount, chainFail>>
  /\ got' = [got EXCEPT ![ch] = Append(@, out)]
  /\ UNCHANGED <<envVars, hpc, callbacks, outcome>>
  /\ UNCHANGED <<catalogVars, tvlVars, chatVars>>

\* ------------------------------------------------------------------------
\* Wallet flow: cdpWalletInfo.handler
\* ------------------------------------------------------------------------
RECURSIVE Flat(_)
Flat(lists) == IF lists = <<>> THEN <<>> ELSE Head(lists) \o Flat(Tail(lists))

RECURSIVE SumUsd(_)
SumUsd(toks) ==
  IF toks = <<>> THEN 0 ELSE Head(toks).usdValue + SumUsd(Tail(toks))

\* allBalances.sort((a, b) => b.usdValue - a.usdValue): a stable sort.
\* Mutant: an insertion that puts an entry ahead of its equals.
RECURSIVE InsertDesc_TiesFirst(_, _)
InsertDesc_TiesFirst(sorted, x) ==
  IF sorted = <<>> THEN <<x>>
  ELSE IF Head(sorted).usdValue > x.usdValue
       THEN <<Head(sorted)>> \o InsertDesc_TiesFirst(Tail(sorted), x)
       ELSE <<x>> \o sorted

RECURSIVE InsertDesc(_, _)
InsertDesc(sorted, x) ==
  IF sorted = <<>> THEN <<x>>
  ELSE IF Head(sorted).usdValue >= x.usdValue
       THEN <<Head(sorted)>> \o InsertDesc(Tail(sorted), x)
       ELSE <<x>> \o sorted

RECURSIVE SortDesc(_)
SortDesc(toks) ==
  IF toks = <<>> THEN <<>>
  ELSE InsertDesc(SortDesc(SubSeq(toks, 1, Len(toks) - 1)), toks[Len(toks)])

\* Mutant: the group of a chain seen for the first time is put in front.
RECURSIVE GroupByChain_Prepend(_, _)
GroupByChain_Prepend(groups, toks) ==
  IF toks = <<>> THEN groups
  ELSE LET t == Head(toks)
           at == {i \in 1..Len(groups) : groups[i].chain = t.chain}
       IN  IF at = {}
           THEN GroupByChain_Prepend(<<[chain |-> t.chain, tokens |-> <<t>>]>>
                                       \o groups, Tail(toks))
           ELSE GroupByChain_Prepend(
                  [i \in 1..Len(groups) |->
                     IF i \in at
                     THEN [groups[i] EXCEPT !.tokens = Append(@, t)]
                     ELSE groups[i]], Tail(toks))

\* byChain: one group per chain, in the order the chains first occur.
RECURSIVE GroupByChain(_, _)
GroupByChain(groups, toks) ==
  IF toks = <<>> THEN groups
  ELSE LET t == Head(toks)
           at == {i \in 1..Len(groups) : groups[i].chain = t.chain}
       IN  IF at = {}
           THEN GroupByChain(Append(groups, [chain |-> t.chain,
                                             tokens |-> <<t>>]), Tail(toks))
           ELSE GroupByChain(
                  [i \in 1..Len(groups) |->
                     IF i \in at
                     THEN [groups[i] EXCEPT !.tokens = Append(@, t)]
                     ELSE groups[i]], Tail(toks))

\* Mutant: the join resolves as soon as one chain fetch has resolved.
AllSettled_Any == \E ch \in ChainSet : cpc[ch] = "returned"

\* Promise.all over the chain fetches resolves when every one has resolved.
AllSettled == \A ch \in ChainSet : cpc[ch] = "returned"

\* The response text, line by line.
Line(kind, of) == [kind |-> kind, of |-> of]
NoTokensLine == Line("No tokens found in your wallet.", <<>>)

TokenLine(t) ==
  Line("token", <<t.balance, t.symbol,
                  IF t.usdValue > 0 THEN <<t.usdValue>> ELSE <<>> >>)

RECURSIVE GroupLines(_)
GroupLines(groups) ==
  IF groups = <<>> THEN <<>>
  ELSE LET g == Head(groups) IN
       <<Line("chain", <<g.chain>>)>>
         \o [i \in 1..Len(g.tokens) |-> TokenLine(g.tokens[i])]
         \o GroupLines(Tail(groups))

\* Mutant: an empty portfolio gets an empty asset section.
PortfolioText_NoIndicator(addr, total, sorted, byChain) ==
  <<Line("Wallet Portfolio", <<>>), Line("Address", <<addr>>),
    Line("Total Balance", <<total>>)>>
    \o <<Line("Assets", <<Len(sorted)>>)>> \o GroupLines(byChain)

\* The text of the portfolio response; address.slice(...) needs a string.
PortfolioText(addr, total, sorted, byChain) ==
  <<Line("Wallet Portfolio", <<>>), Line("Address", <<addr>>),
    Line("Total Balance", <<total>>)>>
    \o (IF Len(sorted) = 0
        THEN <<NoTokensLine>>
        ELSE <<Line("Assets", <<Len(sorted)>>)>> \o GroupLines(byChain))

FallbackText(addr) ==
  <<Line("CDP Wallet Info", <<>>), Line("Address", <<addr>>),
    Line("Could not fetch detailed balance information.", <<>>)>>

\* Everything after the join on the success path: the snapshot.
Snapshot(addr, perChain) ==
  LET allBalances == Flat(perChain)
      totalUsdValue == SumUsd(allBalances)
      sorted == SortDesc(allBalances)
      byChain == GroupByChain(<<>>, sorted)
      data ==
        [actionName |-> "WALLET_INFO", address |-> addr,
         totalBalance |-> totalUsdValue, tokenCount |-> Len(sorted),
         tokens |-> [i \in 1..Len(sorted) |->
                       [symbol |-> sorted[i].symbol, name |-> sorted[i].name,
                        balance |-> sorted[i].balance,
                        usdValue |-> sorted[i].usdValue,
                        chain |-> sorted[i].chain,
                        contractAddress |-> sorted[i].contractAddress]]]
  IN  [success |-> TRUE, kind |-> "portfolio",
       text |-> PortfolioText(addr, totalUsdValue, sorted, byChain),
       byChain |-> byChain, data |-> data, values |-> data]

\* The catch of the handler: the fallback payload.
Fallback(addr, msg) ==
  [success |-> FALSE, kind |-> "fallback", text |-> FallbackText(addr),
   data |-> [address |-> addr, error |-> msg]]

\* What the callback is handed with a result.
Delivered(result) ==
  [kind |-> result.kind, text |-> result.text, content |-> result.data]

\* Mutant: the configuration check is missing, every chain sends its request.
Dispatch_NoConfigCheck(addr) ==
  /\ hpc = "idle"
  /\ hpc' = "joining"
  /\ callbacks' = Append(callbacks, [kind |-> "fetching"])
  /\ address' = addr
  /\ cpc' = [ch \in ChainSet |-> "tokens"]
  /\ sent' = [ch \in ChainSet |-> <<Req("tokens", NoAddress)>>]
  /\ chainFail' = [ch \in ChainSet |-> "none"]
  /\ UNCHANGED <<tokenBalances, tokIdx, nativeAmount, balances, chainResult,
                 got>>
  /\ UNCHANGED <<rpcConfigured, apiKey, outcome>>
  /\ UNCHANGED <<catalogVars, tvlVars, chatVars>>

\* The handler up to `await Promise.all(...)`: the first callback, then one
\* fetchChainBalances call per chain, each running up to its first
\* suspension (an unconfigured chain returns [] at once).
Dispatch(addr) ==
  /\ hpc = "idle"
  /\ hpc' = "joining"
  /\ callbacks' = Append(callbacks, [kind |-> "fetching"])
  /\ address' = addr
  /\ cpc' = [ch \in ChainSet |->
               IF ch \in rpcConfigured THEN "tokens" ELSE "returned"]
  /\ sent' = [ch \in ChainSet |->
                IF ch \in rpcConfigured THEN <<Req("tokens", NoAddress)>>
                ELSE <<>>]
  /\ chainFail' = [ch \in ChainSet |->
                     IF ch \in rpcConfigured THEN "none" ELSE "unconfigured"]
  /\ UNCHANGED <<tokenBalances, tokIdx, nativeAmount, balances, chainResult,
                 got>>
  /\ UNCHANGED <<rpcConfigured, apiKey, outcome>>
  /\ UNCHANGED <<catalogVars, tvlVars, chatVars>>

\* Mutant: a join at which every chain failed or was skipped produces the
\* fallback.
Join_FallbackWhenAllDown ==
  /\ hpc = "joining"
  /\ AllSettled
  /\ outcome' =
       IF address = Undefined
       THEN Fallback(address, "TypeError")
       ELSE IF \A ch \in ChainSet : chainFail[ch] # "none"
       THEN Fallback(address, "all sources failed")
       ELSE Snapshot(address, [i \in 1..Len(chains) |->
                                chainResult[chains[i]]])
  /\ callbacks' = Append(callbacks, Delivered(outcome'))
  /\ hpc' = "done"
  /\ UNCHANGED <<envVars, chainVars>>
  /\ UNCHANGED <<catalogVars, tvlVars, chatVars>>

\* Mutant: no catch around the aggregation, the exception leaves the handler.
Join_Uncaught ==
  /\ hpc = "joining"
  /\ IF \E ch \in ChainSet : cpc[ch] = "rejected"
     THEN /\ outcome' = [success |-> FALSE, kind |-> "exception"]
          /\ UNCHANGED callbacks
     ELSE /\ AllSettled
          /\ IF address = Undefined
             THEN /\ outcome' = [success |-> FALSE, kind |-> "exception"]
                  /\ UNCHANGED callbacks
             ELSE /\ outcome' = Snapshot(address, [i \in 1..Len(chains) |->
                                                    chainResult[chains[i]]])
                  /\ callbacks' = Append(callbacks, Delivered(outcome'))
  /\ hpc' = "done"
  /\ UNCHANGED <<envVars, chainVars>>
  /\ UNCHANGED <<catalogVars, tvlVars, chatVars>>

\* The join and what follows it: flatten, total, sort, group, text, data,
\* callback and return.  Building the text throws when the address is not a
\* string, and a rejected chain fetch would throw at the join: both reach
\* the catch of the handler, which hands out the fallback payload.
Join ==
  /\ hpc = "joining"
  /\ IF \E ch \in ChainSet : cpc[ch] = "rejected"
     THEN outcome' = Fallback(address, "rejected")
     ELSE /\ AllSettled
          /\ outcome' =
               IF address = Undefined
               THEN Fallback(address, "TypeError")
               ELSE Snapshot(address, [i \in 1..Len(chains) |->
                                        chainResult[chains[i]]])
  /\ callbacks' = Append(callbacks, Delivered(outcome'))
  /\ hpc' = "done"
  /\ UNCHANGED <<envVars, chainVars>>
  /\ UNCHANGED <<catalogVars, tvlVars, chatVars>>

\* ------------------------------------------------------------------------
\* GET_PROTOCOL_TVL: the action handler around getProtocolsByNames
\* ------------------------------------------------------------------------
Comma == ","

\* s.split(",")
RECURSIVE Split(_)
Split(s) ==
  IF \A i \in 1..Len(s) : s[i] # Comma THEN <<s>>
  ELSE LET i == CHOOSE n \in 1..Len(s) :
                   s[n] = Comma /\ \A m \in 1..(n - 1) : s[m] # Comma
       IN  <<SubSeq(s, 1, i - 1)>> \o Split(SubSeq(s, i + 1, Len(s)))

\* namesRaw.split(",").map(s => s.trim()).filter(Boolean)
ParseNames(namesRaw) ==
  LET parts == Split(namesRaw)
      trimmed == [i \in 1..Len(parts) |-> trim(parts[i])]
  IN  SelectSeq(trimmed, LAMBDA x : x # EMPTY)

\* What parseKeyValueXml(raw)?.names can be: absent, or a string.
rawTwo == <<"A", "a", "v", "e", ",", " ", "z">>
rawGap == <<"a", "a", ",", ",", "V", "a">>
rawNone == <<"z", ",", "z">>
rawOne == <<" ", "v">>
rawCommas == <<" ", ",", " ">>
TvlRaws == {rawTwo, rawGap, rawNone, rawOne, rawCommas, EMPTY, NULL}

TvlCaller == "c1"
NoResult == [success |-> FALSE, text |-> [fmt |-> "none"]]

InitTvl ==
  /\ tpc = "idle"
  /\ hasCallback = FALSE
  /\ tvlSent = <<>>
  /\ tvlResult = NoResult

\* The catch of the handler: `Failed: ${msg}`, success false.
TvlFailure(msg) ==
  [text |-> [fmt |-> "Failed: ", msg |-> msg], success |-> FALSE,
   error |-> msg]

successesOf(res) == SelectSeq(res, LAMBDA r : r.success /\ r.data # Absent)
failedOf(res) == SelectSeq(res, LAMBDA r : ~r.success)

messageText(res) ==
  IF Len(failedOf(res)) > 0
  THEN [fmt |-> "Fetched TVL for N protocol(s); M not matched",
        n |-> Len(successesOf(res)), m |-> Len(failedOf(res))]
  ELSE [fmt |-> "Fetched TVL for N protocol(s)",
        n |-> Len(successesOf(res)), m |-> 0]

\* Mutant: one failed query fails the batch.
TvlOutcome_AllOrNothing(res) ==
  IF Len(res) = 0 \/ Len(failedOf(res)) > 0
  THEN TvlFailure("No protocols matched the provided names")
  ELSE [text |-> messageText(res), success |-> TRUE, data |-> res,
        values |-> [i \in 1..Len(successesOf(res)) |->
                      successesOf(res)[i].data[1]]]

\* The handler from the answer of getProtocolsByNames to its return value.
TvlOutcome(res) ==
  IF Len(res) = 0
  THEN TvlFailure("No protocols matched the provided names")
  ELSE IF Len(successesOf(res)) = 0
  THEN TvlFailure("No protocols matched the provided names")
  ELSE [text |-> messageText(res), success |-> TRUE, data |-> res,
        values |-> [i \in 1..Len(successesOf(res)) |->
                      successesOf(res)[i].data[1]]]

\* The handler up to `await svc.getProtocolsByNames(names)`: the service is
\* looked up, the names are parsed from the model's answer and the call is
\* made; a missing service, an error of the model call or an answer without
\* names ends the handler in its catch.
TvlHandle(svc, llm, namesRaw, cb) ==
  /\ tpc = "idle"
  /\ pc[Starter] = "started"
  /\ hasCallback' = cb
  /\ UNCHANGED tvlSent
  /\ LET fail == IF ~svc THEN "DefiLlamaService not available"
                 ELSE IF llm = "throw" THEN "model error"
                 ELSE IF OrEmpty(namesRaw) = EMPTY
                 THEN "No protocol names found in user message"
                 ELSE IF ParseNames(namesRaw) = <<>>
                 THEN "No valid protocol names parsed from message"
                 ELSE ""
     IN  IF fail # ""
         THEN /\ tvlResult' = TvlFailure(fail)
              /\ tpc' = "done"
              /\ UNCHANGED <<catalogVars, walletVars, chatVars>>
         ELSE /\ CallSvc(TvlCaller, ParseNames(namesRaw))
              /\ tpc' = "calling"
              /\ UNCHANGED tvlResult

\* The handler after the service answered: the callback, when there is one,
\* gets the text and every per-input result; then the result is returned.
TvlReturn ==
  /\ tpc = "calling"
  /\ pc[TvlCaller] = "done"
  /\ tvlResult' = TvlOutcome(results[TvlCaller])
  /\ tvlSent' = IF hasCallback /\ tvlResult'.success
                THEN Append(tvlSent,
                            [text |-> tvlResult'.text,
                             actions |-> <<"GET_PROTOCOL_TVL">>,
                             content |-> results[TvlCaller]])
                ELSE tvlSent
  /\ tpc' = "done"
  /\ UNCHANGED hasCallback
  /\ UNCHANGED <<catalogVars, walletVars, chatVars>>

\* ------------------------------------------------------------------------
\* Chat interface: loadMessages and handleNewMessage
\* ------------------------------------------------------------------------
MaxLoads == 2
MaxIncoming == 3

Msg(id, createdAt) == [id |-> id, createdAt |-> createdAt]
MsgPool == {Msg("m1", 10), Msg("m2", 5), Msg("m3", 10)}

InitChat ==
  /\ messages = <<>>
  /\ server = <<>>
  /\ loads = {}
  /\ nLoads = 0
  /\ nIncoming = 0
  /\ received = {}

\* sort((a, b) => a.createdAt - b.createdAt): the sort is stable, an entry
\* goes behind the entries of equal createdAt that precede it.
RECURSIVE InsertAsc(_, _)
InsertAsc(sorted, x) ==
  IF sorted = <<>> THEN <<x>>
  ELSE IF x.createdAt < sorted[Len(sorted)].createdAt
  THEN Append(InsertAsc(SubSeq(sorted, 1, Len(sorted) - 1), x),
              sorted[Len(sorted)])
  ELSE Append(sorted, x)

RECURSIVE SortAsc(_)
SortAsc(msgs) ==
  IF msgs = <<>> THEN <<>>
  ELSE InsertAsc(SortAsc(SubSeq(msgs, 1, Len(msgs) - 1)), msgs[Len(msgs)])

HasId(msgs, id) == \E i \in 1..Len(msgs) : msgs[i].id = id

\* Someone posts a message to the channel.
Post(m) ==
  /\ ~HasId(server, m.id)
  /\ server' = Append(server, m)
  /\ UNCHANGED <<messages, loads, nLoads, nIncoming, received>>
  /\ UNCHANGED <<catalogVars, walletVars, tvlVars>>

\* loadMessages up to `await getChannelMessages(...)`: the request is sent
\* and the channel answers with the messages it holds.
LoadStart ==
  /\ nLoads < MaxLoads
  /\ nLoads' = nLoads + 1
  /\ loads' = loads \cup {server}
  /\ UNCHANGED <<messages, server, nIncoming, received>>
  /\ UNCHANGED <<catalogVars, walletVars, tvlVars>>

\* The response arrives: setMessages(sortedMessages) replaces the list.
LoadDone(history) ==
  /\ history \in loads
  /\ loads' = loads \ {history}
  /\ messages' = SortAsc(history)
  /\ UNCHANGED <<server, nLoads, nIncoming, received>>
  /\ UNCHANGED <<catalogVars, walletVars, tvlVars>>

\* The request fails: the catch logs and the list stays as it is.
LoadFail(history) ==
  /\ history \in loads
  /\ loads' = loads \ {history}
  /\ UNCHANGED <<messages, server, nLoads, nIncoming, received>>
  /\ UNCHANGED <<catalogVars, walletVars, tvlVars>>

\* handleNewMessage: the socket delivers a message of the channel (a
\* message may be delivered more than once).
handleNewMessage(m) ==
  /\ HasId(server, m.id)
  /\ nIncoming < MaxIncoming
  /\ nIncoming' = nIncoming + 1
  /\ received' = received \cup {m.id}
  /\ messages' = IF HasId(messages, m.id) THEN messages
                 ELSE SortAsc(Append(messages, m))
  /\ UNCHANGED <<server, loads, nLoads>>
  /\ UNCHANGED <<catalogVars, walletVars, tvlVars>>

Init == InitCatalog /\ InitWallet /\ InitTvl /\ InitChat

\* No call is in progress.
Quiet == \A p \in Procs : pc[p] \in {"idle", "started"}

\* One caller: freshness, retry and backoff with the clock running.  Time
\* passes during a call through the latency of its fetches and through its
\* backoff timers, and otherwise between calls.
Latencies == {1}

Next ==
  \/ \E s \in {Unset, "0", "abc"} : Initialize(s)
  \/ Started
  \/ \E nms \in FewNames : Call("c1", nms)
  \/ \E p \in {Starter, "c1"}, body \in FewCatalogs \cup {NotAList},
        lat \in Latencies : FetchOk(p, body, lat)
  \/ \E p \in {Starter, "c1"}, kind \in FailKinds, j \in Jitters,
        lat \in Latencies : FetchFail(p, kind, j, lat)
  \/ \E p \in {Starter, "c1"} : TimerFire(p)
  \/ Match("c1")
  \/ Finish("c1")
  \/ \E d \in TickDeltas : Quiet /\ Tick(d)

Spec == Init /\ [][Next]_vars

\* No refresh is running.
NoRefresh == \A p \in Procs : lp[p] \notin {"fetch", "backoff"}

\* Two callers racing their refreshes, one call each, with a TTL of zero:
\* any generation is too old one millisecond after it was loaded.  The remote answers at
\* once and the backoff carries no jitter, so that only the interleaving
\* of the callers varies.
NextRace ==
  \/ Initialize("0")
  \/ Started
  \/ \E c \in Callers : Call(c, <<qAa>>)
  \/ \E p \in Procs, body \in FewCatalogs \cup {NotAList} : FetchOk(p, body, 0)
  \/ \E p \in Procs, kind \in FailKinds :
        attempt[p] <= MaxRaceFails /\ FetchFail(p, kind, 0, 0)
  \/ \E p \in Procs : TimerFire(p)
  \/ \E c \in Callers : Match(c)
  \/ NoRefresh /\ Tick(1)

SpecRace == Init /\ [][NextRace]_vars

\* One caller and one call, every catalog and every list of queries; the
\* remote always answers.
NextResolve ==
  \/ Initialize(Unset)
  \/ Started
  \/ \E nms \in AllNames : Call("c1", nms)
  \/ \E p \in {Starter, "c1"}, body \in AllCatalogs \cup {NotAList} :
        FetchOk(p, body, 1)
  \/ Match("c1")

SpecResolve == Init /\ [][NextResolve]_vars

\* ------------------------------------------------------------------------
\* Properties
\* ------------------------------------------------------------------------
Answered(c) == pc[c] = "done"
Ended(p) == lp[p] \in {"loaded", "gaveup"}

\* t is s without its leading and trailing whitespace.
IsTrimOf(t, s) ==
  /\ t = <<>> \/ (t[1] \notin Whitespace /\ t[Len(t)] \notin Whitespace)
  /\ \E i \in 1..(Len(s) + 1) :
       /\ i + Len(t) - 1 <= Len(s)
       /\ SubSeq(s, i, i + Len(t) - 1) = t
       /\ \A k \in 1..Len(s) :
            (k < i \/ k > i + Len(t) - 1) => s[k] \in Whitespace

\* C1: getProtocolsByNames returns exactly one result per input query, in
\* input order: the result list is as long as the input list and the id of
\* the i-th result is the i-th query without its surrounding whitespace;
\* duplicate queries each get their own result.
C1_OneResultPerQuery ==
  \A c \in Callers :
    (Answered(c) /\ names[c] # NotArray) =>
      /\ Len(results[c]) = Len(names[c])
      /\ \A i \in 1..Len(names[c]) :
           IF names[c][i] = NULL
           THEN results[c][i].id = EMPTY
           ELSE IsTrimOf(results[c][i].id, names[c][i])

C1_Witness ==
  \E c \in Callers :
    /\ Answered(c)
    /\ Len(names[c]) = 2
    /\ names[c][1] = qAa /\ names[c][2] = qAa
    /\ Len(results[c]) = 2
    /\ results[c][1].success /\ results[c][2].success

\* The five tiers, stated on the lower-cased fields of a record.
LowName(p) == toLowerCase(OrEmpty(p.name))
LowSymbol(p) == toLowerCase(OrEmpty(p.symbol))
LowSlug(p) == toLowerCase(OrEmpty(p.slug))
IsPrefix(a, b) == \E rest \in {SubSeq(b, Len(a) + 1, Len(b))} :
                    Len(a) <= Len(b) /\ a \o rest = b

InTier(t, p, ql) ==
  \/ t = 1 /\ LowName(p) = ql
  \/ t = 2 /\ LowSymbol(p) = ql
  \/ t = 3 /\ LowSlug(p) = ql
  \/ t = 4 /\ IsPrefix(ql, LowName(p))
  \/ t = 5 /\ IsPrefix(ql, LowSlug(p))

Tiers == 1..5
TiersWithMatch(list, ql) ==
  {t \in Tiers : \E i \in 1..Len(list) : InTier(t, list[i], ql)}
Least(S) == CHOOSE x \in S : \A y \in S : x <= y
FirstInTier(list, t, ql) ==
  Least({i \in 1..Len(list) : InTier(t, list[i], ql)})

\* The result of query number i of caller c is the record of the given id.
Returns(c, i, id) ==
  /\ results[c][i].success
  /\ results[c][i].data = <<shapeProtocol(CHOOSE r \in RecordPool : r.id = id)>>

\* C2: for a non-blank query the record returned belongs to the first of the
\* tiers exact name, exact symbol, exact slug, name prefix, slug prefix that
\* has any match in the live generation, and is the first matching record of
\* that tier in generation order.  With [Aave, Aave V2] the query "Aave"
\* returns Aave and the query "aa" returns Aave; an exact symbol match on a
\* later record beats a name-prefix match on an earlier one.
C2_TierPrecedence ==
  \A c \in Callers :
    (Answered(c) /\ names[c] # NotArray) =>
      \A i \in 1..Len(names[c]) :
        LET list == usedGen[c].list
            ql == toLowerCase(results[c][i].id)
            hit == TiersWithMatch(list, ql)
        IN  (ql # EMPTY /\ hit # {}) =>
              /\ results[c][i].success
              /\ results[c][i].data =
                   <<shapeProtocol(list[FirstInTier(list, Least(hit), ql)])>>
              /\ (list = <<rAave, rAaveV2>> /\ names[c][i] = qAave)
                   => Returns(c, i, 1)
              /\ (list = <<rAave, rAaveV2>> /\ names[c][i] = qAa)
                   => Returns(c, i, 1)
              /\ (list = <<rAaveV2, rSym>> /\ names[c][i] = qAa)
                   => Returns(c, i, 3)

C2_Witness ==
  \E c \in Callers :
    /\ Answered(c)
    /\ usedGen[c].list = <<rAaveV2, rSym>>
    /\ names[c] = <<qAa, qV>>
    /\ Returns(c, 1, 3)
    /\ Returns(c, 2, 3)

\* C3: a call that finds the age of the live generation above the TTL
\* triggers exactly one refresh attempt sequence, one loadIndex run of 1 to 5
\* fetch attempts, and that run has ended before any query is matched and
\* before the call answers.
C3_OneRefreshBeforeAnswer ==
  \A c \in Callers :
    (pc[c] # "idle" /\ sawAged[c]) =>
      /\ runs[c] = 1
      /\ fetches[c] \in 1..maxAttempts
      /\ (results[c] # <<>> \/ pc[c] \in {"resume", "done"}) => Ended(c)

C3_Witness ==
  \E c \in Callers :
    /\ Answered(c)
    /\ sawAged[c]
    /\ seenGen[c].list # <<>>
    /\ Ended(c) /\ runs[c] = 1 /\ fetches[c] = 2
    /\ Len(results[c]) > 0

\* C4: when the fetch fails on all 5 attempts of a refresh, the refresh
\* stops after exactly 5 attempts, the previous generation (records and
\* timestamp) is left unchanged, no exception reaches the caller, and the
\* caller answers from the retained generation.
C4_ExhaustionKeepsGeneration ==
  \A p \in Procs :
    /\ fetches[p] <= maxAttempts
    /\ fails[p] = maxAttempts => lp[p] = "gaveup"
    /\ lp[p] = "gaveup" =>
         /\ fails[p] = maxAttempts /\ fetches[p] = maxAttempts
         /\ ~exc[p]
         /\ pc[p] \in {"resume", "done"}
         /\ cache = seenGen[p].list
         /\ cacheTimestampMs = seenGen[p].ts
         /\ Answered(p) =>
              /\ usedGen[p] = seenGen[p]
              /\ results[p] = ResolveAll(seenGen[p].list, names[p])

C4_Witness ==
  \E c \in Callers :
    /\ Answered(c)
    /\ lp[c] = "gaveup"
    /\ seenGen[c].list = <<rAave>>
    /\ names[c] = <<qAa, qNone>>
    /\ Returns(c, 1, 1)

\* C5: when the fetch fails on the first k attempts (k < 5) and then
\* succeeds, the refresh uses exactly k+1 attempts and makes no further one,
\* the live generation becomes the fetched list and its timestamp advances;
\* for k = 2 exactly 3 attempts are made.
C5_RetrySuccess ==
  \A p \in Procs :
    lp[p] = "loaded" =>
      /\ fails[p] < maxAttempts
      /\ fetches[p] = fails[p] + 1
      /\ fails[p] = 2 => fetches[p] = 3
      /\ fetched[p].body # NotAList => cache = fetched[p].body
      /\ cacheTimestampMs = fetched[p].at
      /\ cacheTimestampMs > seenGen[p].ts

C5_Witness ==
  \E c \in Callers :
    /\ Answered(c)
    /\ lp[c] = "loaded"
    /\ fails[c] = 2 /\ fetches[c] = 3
    /\ seenGen[c].list = <<rAave>>
    /\ cache = <<rAaveV2, rAave>>
    /\ cacheTimestampMs > seenGen[c].ts

\* C6: the live generation is swapped atomically.  At every instant the
\* record list and the timestamp are those of one complete successful fetch
\* (or the initial empty generation), and they change only together, in the
\* one step in which a fetch completes, to that fetch's list and completion
\* time: a reader never sees a list paired with another generation's
\* timestamp, and a list is never changed in place.
LiveIsComplete ==
  /\ cache = (IF liveFetch.body = NotAList THEN <<>> ELSE liveFetch.body)
  /\ cacheTimestampMs = liveFetch.at

SwapIsWholesale ==
  (cache' # cache \/ cacheTimestampMs' # cacheTimestampMs) =>
    \E p \in Procs :
      /\ lp[p] = "fetch" /\ lp'[p] = "loaded"
      /\ cache' \in FewCatalogs \cup {<<>>}
      /\ cacheTimestampMs' = now'

C6_AtomicSwap == []LiveIsComplete /\ [][SwapIsWholesale]_vars

C6_Witness ==
  \E c \in Callers :
    /\ Answered(c)
    /\ usedGen[c].list = <<rAave>>
    /\ cache = <<rAaveV2, rAave>>
    /\ cacheTimestampMs > usedGen[c].ts

\* C7: there is no single-flight guard.  Every caller that finds the
\* generation stale or empty starts a refresh attempt sequence of its own,
\* whatever refreshes are already running, and answers only after its own
\* sequence has ended.
C7_NoSingleFlight ==
  \A c \in Callers :
    (pc[c] # "idle" /\ sawStale[c]) =>
      /\ runs[c] = 1
      /\ pc[c] = "await" => lp[c] \in {"fetch", "backoff"}
      /\ pc[c] \in {"resume", "done"} => Ended(c)

C7_Witness ==
  /\ \A c \in Callers : pc[c] = "await" /\ sawStale[c] /\ lp[c] = "fetch"
  /\ Len(inflight) = Cardinality(Callers)
  /\ cache # <<>>

\* C8: after any interleaving of concurrent refreshes has finished, the
\* live generation is the response of the most recently issued successful
\* fetch: the result of a later-issued fetch is never overwritten by that of
\* an earlier-issued fetch that completes afterwards.
C8_FreshestWins == NoRefresh => ~staleWin

\* The wallet flow: one WALLET_INFO request in every environment.
InitW ==
  /\ InitCatalog
  /\ InitTvl
  /\ InitChat
  /\ rpcConfigured \in SUBSET ChainSet
  /\ apiKey \in BOOLEAN
  /\ address = Undefined
  /\ WalletAtRest

\* How the requests of a chain fetch can end.
TokenOuts == {"ok"} \cup {"throw", "status", "badjson", "rpcerror"}
NativeOuts == {"ok"} \cup ReturnedKinds \cup ThrownKinds
PriceOuts == {"ok", "throw"}
CgOuts == {"ok", "notok", "throw"}
OnchainOuts == {"ok", "fail"}

\* All chains at once.  Of the ways a request can end, those that leave the
\* chain fetch in the same place are represented by one of them; the wallet
\* address is missing only where at most one chain is configured.
NextW ==
  \/ \E addr \in {Address, Undefined} :
        /\ (addr = Undefined => Cardinality(rpcConfigured) <= 1)
        /\ Dispatch(addr)
  \/ \E ch \in ChainSet, out \in TokenOuts, list \in TokenLists :
        TokensResp(ch, out, list)
  \/ \E ch \in ChainSet, out \in {"ok"} \cup ThrownKinds, raw \in NativeRaws :
        NativeResp(ch, out, raw)
  \/ \E ch \in ChainSet, out \in PriceOuts, usd \in NativeUsd \ {0} :
        PriceResp(ch, out, usd)
  \/ \E ch \in ChainSet, out \in {"ok", "notok"} : CgResp(ch, out)
  \/ \E ch \in ChainSet, out \in OnchainOuts : OnchainResp(ch, out)
  \/ Join

SpecWallet == InitW /\ [][NextW]_vars

\* ------------------------------------------------------------------------
\* Wallet flow properties
\* ------------------------------------------------------------------------
FailureKinds == ThrownKinds \cup ReturnedKinds
Failed(ch) == chainFail[ch] \in FailureKinds

RECURSIVE SumOver(_, _)
SumOver(f(_), S) ==
  IF S = {} THEN 0
  ELSE LET x == CHOOSE y \in S : TRUE IN f(x) + SumOver(f, S \ {x})

UsdOf(ch) == SumUsd(balances[ch])
CountOf(ch) == Len(balances[ch])
Healthy == {ch \in ChainSet : ~Failed(ch)}

C10_JoinAfterAll ==
  /\ hpc # "idle" =>
       \A ch \in ChainSet :
         /\ cpc[ch] # "idle"
         /\ ch \in rpcConfigured =>
              /\ Len(sent[ch]) >= 1
              /\ sent[ch][1] = Req("tokens", NoAddress)
              /\ \A i \in 2..Len(sent[ch]) : sent[ch][i].kind # "tokens"
  /\ (hpc = "done" \/ Len(callbacks) > 1 \/ outcome.kind # "none") =>
       \A ch \in ChainSet : cpc[ch] \in {"returned", "rejected"}

C10_Witness ==
  /\ hpc = "done"
  /\ rpcConfigured = ChainSet
  /\ \A ch \in ChainSet : Len(sent[ch]) >= 2
  /\ Len(callbacks) = 2
  /\ outcome.kind = "portfolio"

\* The fields of a chain entry that the snapshot carries.
View(t) ==
  [symbol |-> t.symbol, name |-> t.name, balance |-> t.balance,
   usdValue |-> t.usdValue, chain |-> t.chain,
   contractAddress |-> t.contractAddress]

\* The per-chain results laid end to end in the fixed chain order.
PreSort == chainResult["base"] \o chainResult["ethereum"] \o chainResult["polygon"]

PosIn(seq, t) == CHOOSE k \in 1..Len(seq) : View(seq[k]) = t

\* Position of a contract in the token list the chain's source returned.
SourcePos(ch, addr) ==
  CHOOSE k \in 1..Len(tokenBalances[ch]) :
    tokenBalances[ch][k].contractAddress = addr

UsdAt(k) == PreSort[k].usdValue

\* C11: the snapshot holds every token of every per-chain result exactly
\* once; tokenCount is their number and the total is the sum of their
\* usdValue, zero-priced ones included; tokens are in descending usdValue
\* order and equal values keep their order from before the sort, which is
\* base, ethereum, polygon and within a chain the native asset first, then
\* the tokens in the order of the source.
C11_SnapshotCompleteAndOrdered ==
  (hpc = "done" /\ outcome.kind = "portfolio") =>
    LET toks == outcome.data.tokens IN
    /\ outcome.data.tokenCount = Len(PreSort)
    /\ Len(toks) = Len(PreSort)
    /\ outcome.data.totalBalance = SumOver(UsdAt, 1..Len(PreSort))
    /\ \A j \in 1..Len(PreSort) :
         Cardinality({k \in 1..Len(toks) : toks[k] = View(PreSort[j])}) = 1
    /\ \A i, j \in 1..Len(toks) :
         i < j =>
           /\ toks[i].usdValue >= toks[j].usdValue
           /\ toks[i].usdValue = toks[j].usdValue
                => PosIn(PreSort, toks[i]) < PosIn(PreSort, toks[j])
    /\ \A ch \in ChainSet :
         LET res == chainResult[ch] IN
         /\ \A k \in 2..Len(res) : res[k].contractAddress # NoAddress
         /\ \A i, j \in 1..Len(res) :
              (i < j /\ res[i].contractAddress # NoAddress)
                => SourcePos(ch, res[i].contractAddress)
                     < SourcePos(ch, res[j].contractAddress)

C11_Witness ==
  /\ hpc = "done"
  /\ outcome.kind = "portfolio"
  /\ outcome.data.tokenCount = 3
  /\ outcome.data.totalBalance = 200
  /\ outcome.data.tokens[1].chain = "base"
  /\ outcome.data.tokens[1].contractAddress = "0xA"
  /\ outcome.data.tokens[1].usdValue = 100
  /\ outcome.data.tokens[2].chain = "ethereum"
  /\ outcome.data.tokens[2].usdValue = 100
  /\ outcome.data.tokens[3].chain = "base"
  /\ outcome.data.tokens[3].contractAddress = NoAddress
  /\ outcome.data.tokens[3].usdValue = 0

HasLine(text, kind) == \E i \in 1..Len(text) : text[i].kind = kind
LastCallback == callbacks[Len(callbacks)]

\* C12: when every chain returns no tokens the handler still succeeds: the
\* token list is empty, tokenCount and total are 0, the text returned and
\* handed to the callback says "No tokens found in your wallet.", and the
\* fallback payload is not produced.  The line appears only then.
C12_EmptyWalletIsSuccess ==
  (hpc = "done" /\ address = Address) =>
    /\ (\A ch \in ChainSet : chainResult[ch] = <<>>) =>
         /\ outcome.success
         /\ outcome.kind = "portfolio"
         /\ outcome.data.tokens = <<>>
         /\ outcome.data.tokenCount = 0
         /\ outcome.data.totalBalance = 0
         /\ HasLine(outcome.text, NoTokensLine.kind)
         /\ LastCallback.kind = "portfolio"
         /\ HasLine(LastCallback.text, NoTokensLine.kind)
         /\ LastCallback.content = outcome.data
         /\ \A i \in 1..Len(callbacks) : callbacks[i].kind # "fallback"
    /\ (\E ch \in ChainSet : chainResult[ch] # <<>>) =>
         ~HasLine(outcome.text, NoTokensLine.kind)

C12_Witness ==
  /\ hpc = "done"
  /\ rpcConfigured = ChainSet
  /\ \A ch \in ChainSet :
       /\ got[ch] = <<"ok", "ok">>
       /\ tokenBalances[ch] = <<>>
  /\ outcome.success
  /\ outcome.data.tokenCount = 0
  /\ HasLine(outcome.text, NoTokensLine.kind)

\* One chain fetch on its own: a single configured chain, every way each
\* request can end, and token lists with several priced tokens.
InitChain ==
  /\ InitCatalog
  /\ InitTvl
  /\ InitChat
  /\ rpcConfigured \in {{"base"}, {"polygon"}}
  /\ apiKey \in BOOLEAN
  /\ address = Undefined
  /\ WalletAtRest

NextChain ==
  \/ Dispatch(Address)
  \/ \E ch \in ChainSet, out \in TokenOuts, list \in MoreTokenLists :
        TokensResp(ch, out, list)
  \/ \E ch \in ChainSet, out \in NativeOuts, raw \in NativeRaws :
        NativeResp(ch, out, raw)
  \/ \E ch \in ChainSet, out \in PriceOuts, usd \in NativeUsd :
        PriceResp(ch, out, usd)
  \/ \E ch \in ChainSet, out \in CgOuts : CgResp(ch, out)
  \/ \E ch \in ChainSet, out \in OnchainOuts : OnchainResp(ch, out)
  \/ Join

SpecChain == InitChain /\ [][NextChain]_vars

\* How the request of the given kind for a contract ended, if it was sent.
Ended2(ch, kind, addr, how) ==
  \E i \in 1..Len(got[ch]) : sent[ch][i] = Req(kind, addr) /\ got[ch][i] = how

\* The chain-level requests (token balances, native balance) of the chain
\* both ended without a failure that empties the chain's result.
ChainLevelOk(ch) ==
  /\ Ended2(ch, "tokens", NoAddress, "ok")
  /\ \E how \in {"ok"} \cup ReturnedKinds : Ended2(ch, "native", NoAddress, how)

\* getTokenInfo found nothing for the contract: the metadata reads failed.
NoInfo(ch, addr) == Ended2(ch, "onchain", addr, "fail")

EntriesFor(ch, addr) ==
  {i \in 1..Len(chainResult[ch]) : chainResult[ch][i].contractAddress = addr}

\* C13: in a chain fetch that was not emptied by a chain-level failure, a
\* token whose resolution yields nothing, or whose balance raises an
\* exception, is the only one left out: every other nonzero token of the
\* source list has exactly one entry and the native asset is reported
\* whenever its balance is positive.
C13_TokenFailureSkipsOnlyThatToken ==
  \A ch \in ChainSet :
    (cpc[ch] = "returned" /\ ChainLevelOk(ch)) =>
      /\ \A k \in 1..Len(tokenBalances[ch]) :
           LET t == tokenBalances[ch][k] IN
           IF \/ t.tokenBalance = Malformed
              \/ IsZeroRaw(t.tokenBalance)
              \/ NoInfo(ch, t.contractAddress)
           THEN EntriesFor(ch, t.contractAddress) = {}
           ELSE Cardinality(EntriesFor(ch, t.contractAddress)) = 1
      /\ nativeAmount[ch] > 0 <=> EntriesFor(ch, NoAddress) # {}
      /\ nativeAmount[ch] > 0 => chainResult[ch][1].balance = toFixed6(nativeAmount[ch])

C13_Witness ==
  \E ch \in ChainSet :
    /\ cpc[ch] = "returned"
    /\ tokenBalances[ch] = <<tokA, tokBad, tokB>>
    /\ NoInfo(ch, "0xA")
    /\ Len(chainResult[ch]) = 2
    /\ chainResult[ch][1].contractAddress = NoAddress
    /\ chainResult[ch][2].contractAddress = "0xB"
    /\ hpc = "done"
    /\ outcome.data.tokenCount = 2

\* The entries pushed so far, in the chain's fetch, for a contract.
PushedFor(ch, addr) ==
  {i \in 1..Len(balances[ch]) : balances[ch][i].contractAddress = addr}

RawOf(ch, addr) ==
  LET k == CHOOSE n \in 1..Len(tokenBalances[ch]) :
                tokenBalances[ch][n].contractAddress = addr
  IN  tokenBalances[ch][k].tokenBalance

\* C14: getTokenInfo falls back in layers.  A success response of the pricing
\* API gives the token's entry from that response and no metadata read is
\* made for it; a non-success response or an error (timeout, unparsable
\* body) is always followed by the metadata reads, whose answer gives an
\* entry with price 0; a token gets no entry only when the metadata reads
\* failed, and with a key set that is only after the pricing API failed too;
\* without a key the pricing API is never asked.
C14_LayeredFallback ==
  \A ch \in ChainSet :
    /\ ~apiKey => \A i \in 1..Len(sent[ch]) : sent[ch][i].kind # "cg"
    /\ \A i \in 1..Len(got[ch]) :
         LET addr == sent[ch][i].addr
             e == balances[ch][CHOOSE j \in PushedFor(ch, addr) : TRUE]
         IN
         /\ (sent[ch][i].kind = "cg" /\ got[ch][i] = "ok") =>
              /\ \A j \in 1..Len(sent[ch]) : sent[ch][j] # Req("onchain", addr)
              /\ Cardinality(PushedFor(ch, addr)) = 1
              /\ e.symbol \in {"USDC", "DAI"}
              /\ e.symbol = toUpperCase(CgInfo(addr).symbol)
              /\ e.decimals = IF addr = "0xA" THEN 6 ELSE 18
              /\ e.usdValue = formatUnits(RawOf(ch, addr), e.decimals)
                                * CgInfo(addr).usd
              /\ e.usdValue > 0
         /\ (sent[ch][i].kind = "cg" /\ got[ch][i] # "ok") =>
              /\ Len(sent[ch]) > i
              /\ sent[ch][i + 1] = Req("onchain", addr)
         /\ (sent[ch][i].kind = "onchain" /\ got[ch][i] = "ok") =>
              /\ Cardinality(PushedFor(ch, addr)) = 1
              /\ e.symbol = toUpperCase(ChainMeta(addr).symbol)
              /\ e.decimals = ChainMeta(addr).decimals
              /\ e.balance = toFixed6(formatUnits(RawOf(ch, addr), e.decimals))
              /\ e.usdValue = 0
         /\ (sent[ch][i].kind = "onchain" /\ got[ch][i] = "fail") =>
              /\ PushedFor(ch, addr) = {}
              /\ apiKey => \E how \in {"notok", "throw"} :
                             Ended2(ch, "cg", addr, how)

C14_Witness ==
  \E ch \in ChainSet :
    /\ apiKey
    /\ cpc[ch] = "returned"
    /\ tokenBalances[ch] = <<tokB, tokZero, tokA>>
    /\ Ended2(ch, "cg", "0xB", "throw")
    /\ Ended2(ch, "onchain", "0xB", "ok")
    /\ Ended2(ch, "cg", "0xA", "ok")
    /\ Cardinality(PushedFor(ch, "0xA")) = 1
    /\ Cardinality(PushedFor(ch, "0xB")) = 1

\* The tokens of the chain's source list that the loop prices: well-formed
\* and nonzero.
PricedTokens(ch) ==
  {k \in 1..Len(tokenBalances[ch]) :
     /\ tokenBalances[ch][k].tokenBalance # Malformed
     /\ ~IsZeroRaw(tokenBalances[ch][k].tokenBalance)}

\* C16: when the native price lookup fails the native asset is still
\* reported, with its balance and a USD value of 0; the chain fetch is not
\* emptied and the token loop still runs over every token of the list.
C16_NativePriceFailureIsZeroPrice ==
  \A ch \in ChainSet :
    Ended2(ch, "price", NoAddress, "throw") =>
      /\ cpc[ch] # "rejected"
      /\ Len(balances[ch]) >= 1
      /\ balances[ch][1].symbol = NativeToken(ch).symbol
      /\ balances[ch][1].contractAddress = NoAddress
      /\ balances[ch][1].balance = toFixed6(2)
      /\ balances[ch][1].usdValue = 0
      /\ cpc[ch] = "returned" =>
           /\ chainResult[ch] = balances[ch]
           /\ \A k \in PricedTokens(ch) :
                LET addr == tokenBalances[ch][k].contractAddress IN
                /\ \E i \in 1..Len(sent[ch]) :
                      sent[ch][i].addr = addr
                /\ ~NoInfo(ch, addr) => Cardinality(EntriesFor(ch, addr)) = 1

C16_Witness ==
  \E ch \in ChainSet :
    /\ Ended2(ch, "price", NoAddress, "throw")
    /\ cpc[ch] = "returned"
    /\ tokenBalances[ch] = <<tokA>>
    /\ Len(chainResult[ch]) = 2
    /\ chainResult[ch][1].usdValue = 0
    /\ chainResult[ch][2].usdValue = 100
    /\ hpc = "done"
    /\ outcome.data.totalBalance = 100

\* C15: a chain without a configured endpoint contributes an empty result:
\* no request is ever sent for it, its fetch returns (never rejects) as soon
\* as it is called, and the handler still ends in success with exactly the
\* entries of the configured chains.
C15_UnconfiguredChainIsSkipped ==
  \A ch \in ChainSet \ rpcConfigured :
    /\ sent[ch] = <<>>
    /\ got[ch] = <<>>
    /\ chainResult[ch] = <<>>
    /\ hpc # "idle" => cpc[ch] = "returned"
    /\ (hpc = "done" /\ address = Address) =>
         /\ outcome.success
         /\ \A j \in 1..Len(outcome.data.tokens) :
              outcome.data.tokens[j].chain \in rpcConfigured
         /\ outcome.data.tokenCount =
              SumOver(LAMBDA c : Len(chainResult[c]), rpcConfigured)
         /\ \A c \in rpcConfigured : \A i \in 1..Len(chainResult[c]) :
              \E j \in 1..Len(outcome.data.tokens) :
                 /\ outcome.data.tokens[j].chain = c
                 /\ outcome.data.tokens[j].symbol = chainResult[c][i].symbol
                 /\ outcome.data.tokens[j].balance = chainResult[c][i].balance

C15_Witness ==
  /\ rpcConfigured = {"ethereum", "polygon"}
  /\ hpc = "done"
  /\ outcome.success
  /\ sent["base"] = <<>>
  /\ Len(chainResult["ethereum"]) = 1
  /\ Len(chainResult["polygon"]) = 2
  /\ outcome.data.tokenCount = 3

\* The call of c was made with a list holding only blank queries.
BlankOnly(c) ==
  /\ names[c] # NotArray
  /\ Len(names[c]) > 0
  /\ \A i \in 1..Len(names[c]) : trim(OrEmpty(names[c][i])) = EMPTY

\* Every blank query of the answered call has the "Empty protocol name"
\* failure, whatever the live generation holds.
BlankResults(c) ==
  (Answered(c) /\ names[c] # NotArray) =>
    \A i \in 1..Len(names[c]) :
      trim(OrEmpty(names[c][i])) = EMPTY =>
        /\ ~results[c][i].success
        /\ results[c][i].error = <<EmptyNameError>>
        /\ results[c][i].data = Absent

\* C17: a blank or whitespace-only query fails with "Empty protocol name"
\* without consulting the cache: its result is the same whatever the
\* generation holds, and a call made of blank queries only starts no refresh
\* of the cache (no loadIndex run, no fetch).
C17_BlankFailsWithoutCache ==
  \A c \in Callers :
    /\ BlankResults(c)
    /\ BlankOnly(c) => (runs[c] = 0 /\ fetches[c] = 0)

\* What does hold of the code: the answer given to a blank query.
C17_BlankAnswerFixed == \A c \in Callers : BlankResults(c)

\* What one query resolves to, as a function of the query (trimmed) and of
\* the generation alone, stated on the tiers.
ExpectedFor(list, q) ==
  LET ql == toLowerCase(q)
      hit == TiersWithMatch(list, ql)
  IN  IF q = EMPTY
      THEN [id |-> EMPTY, success |-> FALSE, data |-> Absent,
            error |-> <<EmptyNameError>>]
      ELSE IF hit = {}
      THEN [id |-> q, success |-> FALSE, data |-> Absent,
            error |-> <<NoMatchError(q)>>]
      ELSE [id |-> q, success |-> TRUE,
            data |-> <<shapeProtocol(list[FirstInTier(list, Least(hit), ql)])>>,
            error |-> Absent]

\* C18: failures in a batch are isolated per query: the list answered has
\* one result per query, and the i-th result is the one its own query gets
\* from the live generation, whatever the other queries of the list are; a
\* blank or unmatched query neither changes nor cuts short the results of
\* its siblings.
C18_PerQueryIsolation ==
  \A c \in Callers :
    (Answered(c) /\ names[c] # NotArray) =>
      /\ Len(results[c]) = Len(names[c])
      /\ \A i \in 1..Len(names[c]) :
           /\ IF names[c][i] = NULL
              THEN results[c][i].id = EMPTY
              ELSE IsTrimOf(results[c][i].id, names[c][i])
           /\ results[c][i] = ExpectedFor(usedGen[c].list, results[c][i].id)
      /\ \A i, j \in 1..Len(names[c]) :
           names[c][i] = names[c][j] => results[c][i] = results[c][j]

C18_Witness ==
  \E c \in Callers :
    /\ Answered(c)
    /\ usedGen[c].list = <<rAaveV2, rSym>>
    /\ names[c] = <<qBlank, qAa>>
    /\ results[c][1].error = <<EmptyNameError>>
    /\ Returns(c, 2, 3)

\* One caller and one call with two queries, every catalog and every pair of
\* queries; the remote always answers.
PairNames == {<<a, b>> : a \in QueryPool, b \in QueryPool}

NextMatch ==
  \/ Initialize(Unset)
  \/ Started
  \/ \E nms \in PairNames : Call("c1", nms)
  \/ \E p \in {Starter, "c1"}, body \in AllCatalogs \cup {NotAList} :
        FetchOk(p, body, 1)
  \/ Match("c1")

SpecMatch == Init /\ [][NextMatch]_vars

\* Two letters that are equal or the upper and lower case of each other.
CasePairs == {{"A", "a"}, {"V", "v"}, {"E", "e"}}
SameLetter(x, y) == x = y \/ {x, y} \in CasePairs

\* ta and tb are a and b without their surrounding whitespace, and differ
\* at most in letter case.
SameQuery(a, ta, b, tb) ==
  /\ Len(ta) = Len(tb)
  /\ \A k \in 1..Len(ta) : SameLetter(ta[k], tb[k])
  /\ IsTrimOf(ta, a)
  /\ IsTrimOf(tb, b)

\* C27: matching is case-insensitive and ignores surrounding whitespace: two
\* queries of one call that differ only in letter case or in leading and
\* trailing whitespace get the same record, or both fail; and the result of
\* a query is fixed by the generation and the query: the same query twice
\* in one call gets the same result.
C27_CaseAndWhitespaceInsensitive ==
  \A c \in Callers :
    (Answered(c) /\ names[c] # NotArray) =>
      \A i, j \in 1..Len(names[c]) :
        LET a == names[c][i]
            b == names[c][j]
        IN  i < j =>
              /\ (a # NULL /\ b # NULL
                    /\ SameQuery(a, results[c][i].id, b, results[c][j].id)) =>
                   /\ results[c][i].success = results[c][j].success
                   /\ results[c][i].data = results[c][j].data
              /\ a = b => results[c][i] = results[c][j]

\* "Aave" and " AAVE " in one call both get the record Aave, which the
\* second reaches only through trimming and lower-casing.
C27_Witness ==
  \E c \in Callers :
    /\ Answered(c)
    /\ usedGen[c].list = <<rAaveV2, rAave>>
    /\ names[c] = <<qAave, qPadded>>
    /\ Returns(c, 1, 1)
    /\ Returns(c, 2, 1)
    /\ results[c][1].id # results[c][2].id

\* A field that is missing or the empty string.
NoText(x) == x = NULL \/ x = EMPTY

\* Record p matches the lower-cased query ql in tier t through a field that
\* has text: the symbol tier needs a symbol, the two slug tiers a slug.
MatchesThroughField(t, p, ql) ==
  /\ InTier(t, p, ql)
  /\ t = 2 => ~NoText(p.symbol)
  /\ t \in {3, 5} => ~NoText(p.slug)

\* C28: a non-blank query succeeds exactly when some record of the live
\* generation matches it in at least one of the five tiers; when none does,
\* its result is a failure whose error names the trimmed query; and the
\* record a success returns matches in some tier through a field that has
\* text, so a record with an empty or missing symbol or slug is never
\* returned through the symbol or slug tiers.
C28_SuccessIffSomeTierMatches ==
  \A c \in Callers :
    (Answered(c) /\ names[c] # NotArray) =>
      \A i \in 1..Len(names[c]) :
        LET list == usedGen[c].list
            raw == names[c][i]
            res == results[c][i]
            ql == toLowerCase(res.id)
        IN  (raw # NULL /\ IsTrimOf(res.id, raw) /\ res.id # EMPTY) =>
              /\ res.success <=> TiersWithMatch(list, ql) # {}
              /\ ~res.success =>
                   /\ res.error = <<NoMatchError(res.id)>>
                   /\ res.data = Absent
              /\ res.success =>
                   \E k \in 1..Len(list), t \in Tiers :
                     /\ res.data = <<shapeProtocol(list[k])>>
                     /\ MatchesThroughField(t, list[k], ql)

\* Against [Ve (symbol AA, slug empty), the record with only the slug vA]
\* the query " AAVE " matches nothing and fails naming "AAVE", and "Va" is
\* found through the slug.
C28_Witness ==
  \E c \in Callers :
    /\ Answered(c)
    /\ usedGen[c].list = <<rSym, rSlug>>
    /\ names[c] = <<qPadded, qVa>>
    /\ ~results[c][1].success
    /\ results[c][1].error = <<NoMatchError(<<"A", "A", "V", "E">>)>>
    /\ Returns(c, 2, 4)

\* The contracts of the chain's source list whose balance is zero.
ZeroTokens(ch) ==
  {tokenBalances[ch][k].contractAddress : k \in
     {n \in 1..Len(tokenBalances[ch]) :
        /\ tokenBalances[ch][n].tokenBalance # Malformed
        /\ IsZeroRaw(tokenBalances[ch][n].tokenBalance)}}

\* The entry stands for a nonzero balance: the native asset with a positive
\* amount, or a token of the source list with a nonzero raw balance.
BackedByBalance(ch, e) ==
  IF e.contractAddress = NoAddress
  THEN nativeAmount[ch] > 0
  ELSE \E k \in PricedTokens(ch) :
         tokenBalances[ch][k].contractAddress = e.contractAddress

\* C29: tokens with a zero balance are skipped: they never get an entry in
\* the chain's result and no pricing or metadata request is sent for them;
\* the native asset is priced and reported only when its balance is above
\* zero; every entry of a chain's result, and so of the snapshot, which has
\* one entry per entry of the chain results, stands for a nonzero balance.
C29_ZeroBalancesSkipped ==
  /\ \A ch \in ChainSet :
       /\ \A addr \in ZeroTokens(ch) :
            /\ PushedFor(ch, addr) = {}
            /\ EntriesFor(ch, addr) = {}
            /\ \A i \in 1..Len(sent[ch]) : sent[ch][i].addr # addr
       /\ nativeAmount[ch] = 0 =>
            /\ PushedFor(ch, NoAddress) = {}
            /\ \A i \in 1..Len(sent[ch]) : sent[ch][i].kind # "price"
       /\ \A i \in 1..Len(balances[ch]) : BackedByBalance(ch, balances[ch][i])
       /\ \A i \in 1..Len(chainResult[ch]) :
            BackedByBalance(ch, chainResult[ch][i])
  /\ (hpc = "done" /\ outcome.success /\ outcome.kind = "portfolio") =>
       /\ outcome.data.tokenCount = Len(PreSort)
       /\ Len(outcome.data.tokens) = Len(PreSort)

\* A chain with a zero native balance and the list [B, zero, A]: two
\* requests for B, none for the zero token, then A; the snapshot has the
\* two tokens only.
C29_Witness ==
  \E ch \in ChainSet :
    /\ tokenBalances[ch] = <<tokB, tokZero, tokA>>
    /\ Ended2(ch, "native", NoAddress, "ok")
    /\ nativeAmount[ch] = 0
    /\ Len(sent[ch]) = 4
    /\ sent[ch][3].addr = "0xB"
    /\ sent[ch][4].addr = "0xA"
    /\ Len(chainResult[ch]) = 2
    /\ hpc = "done"
    /\ outcome.data.tokenCount = 2

\* Position of the first token of the chain in the flat list.
FirstOf(flat, ch) == Least({i \in 1..Len(flat) : flat[i].chain = ch})

\* C30: grouping by chain keeps the first-seen order: the groups come in
\* the order in which their chains first occur in the value-sorted flat
\* list, no chain has two groups and no group is empty; every token of the
\* flat list is in its own chain's group and nowhere else; and the tokens
\* of a group are those of its chain in the order of the flat list, that
\* is by descending usdValue.
C30_GroupsKeepFirstSeenOrder ==
  (hpc = "done" /\ outcome.success /\ outcome.kind = "portfolio") =>
    LET flat == outcome.data.tokens
        groups == outcome.byChain
    IN  /\ \A g \in 1..Len(groups) :
             /\ groups[g].tokens # <<>>
             /\ \E i \in 1..Len(flat) : flat[i].chain = groups[g].chain
             /\ \A h \in 1..Len(groups) :
                  g < h => /\ groups[g].chain # groups[h].chain
                           /\ FirstOf(flat, groups[g].chain)
                                < FirstOf(flat, groups[h].chain)
             /\ [k \in 1..Len(groups[g].tokens) |-> View(groups[g].tokens[k])]
                  = SelectSeq(flat, LAMBDA t : t.chain = groups[g].chain)
             /\ \A k \in 1..(Len(groups[g].tokens) - 1) :
                  groups[g].tokens[k].usdValue
                    >= groups[g].tokens[k + 1].usdValue
        /\ \A i \in 1..Len(flat) :
             Cardinality({g \in 1..Len(groups) :
                            \E k \in 1..Len(groups[g].tokens) :
                              View(groups[g].tokens[k]) = flat[i]}) = 1

\* The most valuable token is on polygon and base holds two tokens: the
\* polygon group comes first although base is first in the chain order.
C30_Witness ==
  /\ hpc = "done"
  /\ outcome.kind = "portfolio"
  /\ Len(outcome.byChain) = 2
  /\ outcome.byChain[1].chain = "polygon"
  /\ outcome.byChain[2].chain = "base"
  /\ Len(outcome.byChain[2].tokens) = 2
  /\ outcome.data.tokens[1].usdValue > outcome.data.tokens[2].usdValue

\* The action handler over every catalog the startup fetch can load.
NextTvl ==
  \/ Initialize(Unset)
  \/ Started
  \/ \E svc \in BOOLEAN, llm \in {"ok", "throw"}, raw \in TvlRaws,
        cb \in BOOLEAN : TvlHandle(svc, llm, raw, cb)
  \/ \E p \in {Starter, TvlCaller}, body \in AllCatalogs \cup {NotAList} :
        FetchOk(p, body, 1)
  \/ Match(TvlCaller)
  \/ TvlReturn

SpecTvl == Init /\ [][NextTvl]_vars

Resolved(res) == {i \in 1..Len(res) : res[i].success}

AggregationThrows == address = Undefined

\* C20: an exception raised while aggregating is caught by the handler: it
\* returns success false with a payload holding the address and the error
\* message and nothing else, the callback is handed the same payload and no
\* snapshot, and no exception leaves the handler; without an exception the
\* handler does not report failure.
C20_ExceptionYieldsFallback ==
  hpc = "done" =>
    /\ outcome.kind \in {"portfolio", "fallback"}
    /\ AggregationThrows =>
         /\ ~outcome.success
         /\ outcome.kind = "fallback"
         /\ DOMAIN outcome.data = {"address", "error"}
         /\ outcome.data.address = address
         /\ outcome.data.error = "TypeError"
         /\ outcome.text = FallbackText(address)
         /\ Len(callbacks) = 2
         /\ LastCallback.content = outcome.data
         /\ \A i \in 1..Len(callbacks) : callbacks[i].kind # "portfolio"
    /\ ~AggregationThrows => outcome.success

C20_Witness ==
  /\ hpc = "done"
  /\ AggregationThrows
  /\ outcome.kind = "fallback"
  /\ ~outcome.success
  /\ \E ch \in ChainSet : Len(chainResult[ch]) = 2

\* ------------------------------------------------------------------------
\* Remote sources that accept a request and never answer
\* ------------------------------------------------------------------------
\* Whether the request of the given kind is made with a timeout: the pricing
\* lookup of a token aborts after 10 s and the metadata reads go through a
\* client whose transport times out; the token-balance, native-balance and
\* native-price requests are plain fetch calls without a signal.
HasTimeout(kind) == kind \in {"cg", "onchain"}

Pending(ch) == cpc[ch] \in {"tokens", "native", "price", "cg", "onchain"}

\* The request the chain fetch is waiting for will never be answered.
Hung(ch) == Pending(ch) /\ Len(got[ch]) = Len(sent[ch])

\* The remote source has accepted the pending request and stays silent.  For
\* a request made with a timeout this is the outcome "throw" of its response
\* (the abort reaches the same catch), so only the others are marked.
Hang(ch) ==
  /\ Pending(ch)
  /\ ~Hung(ch)
  /\ ~HasTimeout(cpc[ch])
  /\ got' = [got EXCEPT ![ch] = Append(@, "hang")]
  /\ UNCHANGED <<envVars, hpc, cpc, tokenBalances, tokIdx, nativeAmount,
                 balances, chainResult, chainFail, sent, callbacks, outcome>>
  /\ UNCHANGED <<catalogVars, tvlVars, chatVars>>

\* Some answer, or the timeout, of the request chain ch waits for arrives.
Respond(ch) ==
  /\ ~Hung(ch)
  /\ \/ \E out \in TokenOuts, list \in TokenLists : TokensResp(ch, out, list)
     \/ \E out \in NativeOuts, raw \in NativeRaws : NativeResp(ch, out, raw)
     \/ \E out \in PriceOuts, usd \in NativeUsd : PriceResp(ch, out, usd)
     \/ \E out \in CgOuts : CgResp(ch, out)
     \/ \E out \in OnchainOuts : OnchainResp(ch, out)

NextHang ==
  \/ Dispatch(Address)
  \/ \E ch \in ChainSet : Hang(ch)
  \/ \E ch \in ChainSet : Respond(ch)
  \/ Join

\* Answers that are on their way arrive, timers fire and the continuation of
\* a settled join runs; nothing obliges a silent source to answer.
FairHang ==
  /\ \A ch \in ChainSet : WF_vars(Respond(ch))
  /\ WF_vars(Join)

SpecHang == InitChain /\ [][NextHang]_vars /\ FairHang

\* C21: every network operation is bounded by its own timeout, so a started
\* getPortfolio eventually returns even when a remote source accepts a
\* request and never responds.
C21_PortfolioEventuallyReturns == (hpc = "joining") ~> (hpc = "done")

\* How many times the chain fetch has issued the given request.
Issued(ch, r) == Cardinality({i \in 1..Len(sent[ch]) : sent[ch][i] = r})

\* C22: nothing is retried in a getPortfolio call: per chain the
\* token-balance, native-balance and native-price requests are issued at
\* most once, per token the pricing request and the metadata reads are
\* issued at most once, whatever fails; a failed chain-level request is the
\* last request of its chain, whose result is then empty.
C22_NoRetryOutsideCatalog ==
  \A ch \in ChainSet :
    /\ \A i \in 1..Len(sent[ch]) : Issued(ch, sent[ch][i]) = 1
    /\ Len(sent[ch]) <= 3 + 2 * Cardinality(PricedTokens(ch))
    /\ \A i \in 1..Len(got[ch]) :
         \/ /\ sent[ch][i].kind = "tokens"
            /\ got[ch][i] # "ok"
         \/ /\ sent[ch][i].kind = "native"
            /\ got[ch][i] \in ThrownKinds
         => /\ Len(sent[ch]) = i
            /\ cpc[ch] = "returned"
            /\ chainResult[ch] = <<>>

C22_Witness ==
  \E ch \in ChainSet :
    /\ cpc[ch] = "returned"
    /\ tokenBalances[ch] = <<tokA>>
    /\ sent[ch] = <<Req("tokens", NoAddress), Req("native", NoAddress),
                    Req("price", NoAddress), Req("cg", "0xA"),
                    Req("onchain", "0xA")>>
    /\ got[ch] = <<"ok", "ok", "throw", "throw", "fail">>
    /\ Len(chainResult[ch]) = 1

\* ------------------------------------------------------------------------
\* The retry loop of loadIndex on its own
\* ------------------------------------------------------------------------
\* Math.floor(Math.random() * 200): both ends and a value in between.
RetryJitters == {0, 100, JitterRange - 1}

\* The startup load alone, with every failure kind and jitter; the clock
\* moves only with the latency of a fetch and with the backoff timer.
NextRetry ==
  \/ Initialize(Unset)
  \/ Started
  \/ \E body \in FewCatalogs \cup {NotAList} : FetchOk(Starter, body, 1)
  \/ \E kind \in FailKinds, j \in RetryJitters : FetchFail(Starter, kind, j, 1)
  \/ TimerFire(Starter)

SpecRetry == Init /\ [][NextRetry]_vars

\* The wait the claim gives for the pause after failed attempt k.
WaitLow(k) == CASE k = 1 -> 500 [] k = 2 -> 1000 [] k = 3 -> 2000 [] k = 4 -> 4000
WaitHigh(k) == CASE k = 1 -> 700 [] k = 2 -> 1200 [] k = 3 -> 2200 [] k = 4 -> 4200

\* C23: a refresh makes at most 5 attempts; the wait after failed attempt k
\* (k = 1..4) is 500 * 2^(k-1) ms plus a jitter of 0 to 200 ms, that is
\* 500-700, 1000-1200, 2000-2200, 4000-4200, so every wait is longer than
\* any wait the attempt before could have had; the fifth failed attempt is
\* followed by no wait.
C23_BackoffSchedule ==
  \A p \in Procs :
    /\ attempt[p] <= 5 /\ fetches[p] <= 5
    /\ lp[p] = "backoff" =>
         LET k == attempt[p]
             wait == wakeAt[p] - now
         IN  /\ k \in 1..4
             /\ fails[p] = k
             /\ wait >= WaitLow(k) /\ wait <= WaitHigh(k)
             /\ k > 1 => wait > WaitHigh(k - 1)
    /\ fails[p] = 5 => lp[p] = "gaveup"

C23_Witness ==
  /\ lp[Starter] = "backoff"
  /\ attempt[Starter] = 4
  /\ wakeAt[Starter] - now = 4199

\* ------------------------------------------------------------------------
\* Startup with every TTL setting
\* ------------------------------------------------------------------------
NextTtl ==
  \/ \E s \in Settings : Initialize(s)
  \/ Started
  \/ \E nms \in FewNames : Call("c1", nms)
  \/ \E p \in {Starter, "c1"}, body \in FewCatalogs : FetchOk(p, body, 1)
  \/ Match("c1")
  \/ \E d \in TickDeltas : Quiet /\ Tick(d)

SpecTtl == Init /\ [][NextTtl]_vars

\* Number.isInteger(x), for the values a TTL can take here.
IsInteger(x) == x # Infinity

\* C24: the TTL override is accepted only when it is a non-negative integer
\* number of milliseconds (zero included); otherwise the default of 300000
\* ms is kept.  So the TTL in force is the default or a non-negative
\* integer.
C24_TtlIsDefaultOrNonNegativeInteger ==
  \/ ttlMs = 300000
  \/ ttlMs >= 0 /\ IsInteger(ttlMs)

\* What does hold of the code: a negative, empty, absent or non-numeric
\* setting never replaces the default, and "0" and "60000" are accepted.
C24_StoredTtl == ttlMs \in {300000, 0, 60000, Infinity}

\* The live generation is empty or older than the TTL.
EmptyOrOld == Len(cache) = 0 \/ now - cacheTimestampMs > ttlMs

\* The step is the start of a call of getProtocolsByNames by c.
CallStarts(c) == pc[c] = "idle" /\ pc'[c] # "idle"

RECURSIVE PickSort(_)
PickSort(seq) ==
  IF seq = <<>> THEN <<>>
  ELSE LET m == CHOOSE i \in 1..Len(seq) :
                  /\ \A j \in 1..Len(seq) : seq[j].usdValue <= seq[i].usdValue
                  /\ \A j \in 1..(i - 1) : seq[j].usdValue < seq[i].usdValue
       IN  <<seq[m]>> \o PickSort(SubSeq(seq, 1, m - 1)
                                   \o SubSeq(seq, m + 1, Len(seq)))

\* The chains of a token list, each once, in the order of first occurrence.
RECURSIVE FirstSeen(_)
FirstSeen(toks) ==
  IF toks = <<>> THEN <<>>
  ELSE LET before == FirstSeen(SubSeq(toks, 1, Len(toks) - 1))
           c == toks[Len(toks)].chain
       IN  IF \E i \in 1..Len(before) : before[i] = c THEN before
           ELSE Append(before, c)

GroupsOf(toks) ==
  [k \in 1..Len(FirstSeen(toks)) |->
     [chain |-> FirstSeen(toks)[k],
      tokens |-> SelectSeq(toks, LAMBDA t : t.chain = FirstSeen(toks)[k])]]

\* C26: no state is shared across chain fetches and the merge does not
\* depend on the order in which they complete.  The list a chain fetch
\* builds holds only entries of its own chain, each for a request of its own
\* log that was answered, none twice; and the snapshot is a function of the
\* per-chain results taken in the fixed order base, ethereum, polygon:
\* tokens are their stable descending sort, total and tokenCount their sum
\* and number, the grouping that of the sorted list.
C26_MergeIndependentOfCompletionOrder ==
  /\ \A ch \in ChainSet :
       /\ Len(balances[ch]) <= 1 + Cardinality(PricedTokens(ch))
       /\ \A k \in 1..Len(balances[ch]) :
            LET e == balances[ch][k] IN
            /\ e.chain = ch
            /\ \A j \in 1..Len(balances[ch]) :
                 balances[ch][j].contractAddress = e.contractAddress => j = k
            /\ IF e.contractAddress = NoAddress
               THEN \E how \in PriceOuts : Ended2(ch, "price", NoAddress, how)
               ELSE \/ Ended2(ch, "cg", e.contractAddress, "ok")
                    \/ Ended2(ch, "onchain", e.contractAddress, "ok")
  /\ (hpc = "done" /\ outcome.kind = "portfolio") =>
       LET merged == PickSort(PreSort) IN
       /\ outcome.data.tokens = [i \in 1..Len(merged) |-> View(merged[i])]
       /\ outcome.data.tokenCount = Len(PreSort)
       /\ outcome.data.totalBalance = SumOver(UsdAt, 1..Len(PreSort))
       /\ outcome.byChain = GroupsOf(merged)

\* Two chains hold entries of equal value (a state reached whichever of the
\* two fetches finished first): the entry of the earlier chain comes first.
C26_Witness ==
  /\ hpc = "done"
  /\ outcome.kind = "portfolio"
  /\ rpcConfigured = {"base", "polygon"}
  /\ Len(chainResult["base"]) = 2
  /\ Len(chainResult["polygon"]) = 1
  /\ Len(sent["polygon"]) = 3
  /\ chainResult["base"][2].usdValue = chainResult["polygon"][1].usdValue
  /\ outcome.data.tokens[2].chain = "base"
  /\ outcome.data.tokens[3].chain = "polygon"

\* ------------------------------------------------------------------------
\* Freshness: two callers one after the other, the clock running between
\* calls, the remote serving lists, the empty list and a body that is no
\* list
\* ------------------------------------------------------------------------
FreshBodies == FewCatalogs \cup {<<>>, NotAList}

\* No call is suspended: each caller has not called yet or has its answer.
NoneSuspended == \A p \in Procs : pc[p] \in {"idle", "started", "done"}

NextFresh ==
  \/ \E s \in {Unset, "0"} : Initialize(s)
  \/ Started
  \/ \E c \in Callers, nms \in FewNames : Call(c, nms)
  \/ \E p \in Procs, body \in FreshBodies : FetchOk(p, body, 1)
  \/ \E c \in Callers : Match(c)
  \/ \E d \in TickDeltas : NoneSuspended /\ Tick(d)

SpecFresh == Init /\ [][NextFresh]_vars

\* C31: ensureFresh issues no fetch when the live generation is non-empty
\* and its age is at most the TTL (an age equal to the TTL is still fresh),
\* and the call goes on to matching at once; it always starts a refresh
\* when the generation is empty, whatever its age, so a generation loaded
\* as an empty list is refetched by every call.
C31_FreshUpToTtlEmptyAlwaysRefetched ==
  [][ \A c \in Callers :
        CallStarts(c) =>
          /\ (Len(cache) > 0 /\ now - cacheTimestampMs <= ttlMs) =>
               /\ fetches' = fetches
               /\ inflight' = inflight
               /\ pc'[c] = "resume"
          /\ Len(cache) = 0 =>
               /\ fetches'[c] = fetches[c] + 1
               /\ inflight' = Append(inflight, c)
               /\ pc'[c] = "await"
    ]_vars

\* The first caller found the generation that startup loaded as an empty
\* list and refetched it; the second called when the age of the new
\* generation was exactly the default TTL and fetched nothing.
C31_Witness ==
  /\ Answered("c1") /\ Answered("c2")
  /\ seenGen["c1"].list = <<>>
  /\ seenGen["c1"].ts > StartNow
  /\ runs["c1"] = 1
  /\ seenGen["c2"].list = <<rAave>>
  /\ ttlMs = DefaultTtlMs
  /\ now - seenGen["c2"].ts = ttlMs
  /\ runs["c2"] = 0 /\ fetches["c2"] = 0

\* The step completes a fetch of p with a body that parsed but is no list.
GotNonList(p) ==
  /\ lp[p] = "fetch"
  /\ fetched'[p] # fetched[p]
  /\ fetched'[p].body = NotAList

\* C32: a refresh attempt that receives a success response whose body parses
\* but is not a list counts as a successful load: the run ends loaded with
\* no further attempt and no backoff timer, the live generation becomes the
\* empty list, whatever it held before, and its timestamp is set to the
\* time of completion.
C32_NonListBodyLoadsEmptyGeneration ==
  [][ \A p \in Procs :
        GotNonList(p) =>
          /\ lp'[p] = "loaded"
          /\ fetches' = fetches /\ fails' = fails /\ wakeAt' = wakeAt
          /\ p \notin {inflight'[i] : i \in 1..Len(inflight')}
          /\ cache' = <<>>
          /\ cacheTimestampMs' = now'
          /\ cacheTimestampMs' >= cacheTimestampMs
          /\ pc[p] = "await" => pc'[p] = "resume"
    ]_vars

\* A caller found the generation [Aave] too old, its single fetch got a
\* non-list body, and it answered from the empty generation: every query
\* failed.
C32_Witness ==
  \E c \in Callers :
    /\ Answered(c)
    /\ seenGen[c].list = <<rAave>>
    /\ fetched[c].body = NotAList
    /\ fetches[c] = 1 /\ lp[c] = "loaded"
    /\ cache = <<>>
    /\ cacheTimestampMs > seenGen[c].ts
    /\ usedGen[c].list = <<>>
    /\ \A i \in 1..Len(results[c]) : ~results[c][i].success

\* ------------------------------------------------------------------------
\* Generations: two callers with overlapping calls and refreshes, a TTL of
\* zero, the remote serving a different list to each fetch
\* ------------------------------------------------------------------------
GenBodies == FewCatalogs \cup {<<rAaveV2>>, NotAList}
GenLists == FewCatalogs \cup {<<rAaveV2>>, <<>>}
GenNames == <<qAa, qAave>>

NextGen ==
  \/ Initialize("0")
  \/ Started
  \/ \E c \in Callers : Call(c, GenNames)
  \/ \E p \in Procs, body \in GenBodies : FetchOk(p, body, 1)
  \/ \E c \in Callers : Match(c)
  \/ Tick(1)

SpecGen == Init /\ [][NextGen]_vars

\* C33: all results of one call are computed against a single generation:
\* there is one record list, the one live when the call answered, from
\* which every result of the call follows, however the refreshes of the
\* other caller fall between the start of the call and its answer.
C33_OneGenerationPerCall ==
  \A c \in Callers :
    (Answered(c) /\ names[c] # NotArray) =>
      \E g \in GenLists :
        /\ g = usedGen[c].list
        /\ Len(results[c]) = Len(names[c])
        /\ \A i \in 1..Len(results[c]) :
             results[c][i] = ExpectedFor(g, results[c][i].id)

\* Both callers refreshed at the same time; the first answered from [Aave]
\* before the fetch of the second replaced it by [Aave V2], from which the
\* second answered: each call is whole, the two differ.
C33_Witness ==
  /\ Answered("c1") /\ Answered("c2")
  /\ seenGen["c1"] = seenGen["c2"]
  /\ usedGen["c1"].list = <<rAave>>
  /\ usedGen["c2"].list = <<rAaveV2>>
  /\ usedGen["c2"].ts > usedGen["c1"].ts
  /\ Returns("c1", 1, 1) /\ Returns("c1", 2, 1)
  /\ Returns("c2", 1, 2) /\ Returns("c2", 2, 2)

\* ------------------------------------------------------------------------
\* Exhausted refreshes: calls made one after the other, fetches that fail
\* up to the last attempt or succeed
\* ------------------------------------------------------------------------
GiveUpKinds == {"throw", "status"}

NextGiveUp ==
  \/ Initialize(Unset)
  \/ Started
  \/ \E c \in Callers, nms \in FewNames : NoneSuspended /\ Call(c, nms)
  \/ \E p \in Procs, body \in FewCatalogs : FetchOk(p, body, 1)
  \/ \E p \in Procs, kind \in GiveUpKinds : FetchFail(p, kind, 0, 1)
  \/ \E p \in Procs : TimerFire(p)
  \/ \E c \in Callers : Match(c)
  \/ \E d \in TickDeltas : NoneSuspended /\ Tick(d)

SpecGiveUp == Init /\ [][NextGiveUp]_vars

\* The step is the last failed attempt of the refresh of p.
GivesUp(p) == lp[p] = "fetch" /\ lp'[p] = "gaveup"

\* The refresh of some earlier call, or the one of startup, gave up and the
\* generation is still the one that refresh was started for.
LastRefreshGaveUp ==
  \/ \E p \in Callers :
        /\ lp[p] = "gaveup"
        /\ Gen(cache, cacheTimestampMs) = seenGen[p]
  \/ pc[Starter] = "started" /\ Gen(cache, cacheTimestampMs) = Gen(<<>>, 0)

\* C34: a failed refresh is not cached.  The step in which a refresh gives
\* up after its 5 attempts leaves the record list and the timestamp of the
\* generation as they were, so a generation that was empty or too old when
\* the refresh began is still so; and every call that starts while the last
\* refresh has given up and none has succeeded since starts a refresh
\* sequence of its own, from attempt 1.
C34_NoNegativeCaching ==
  [][ /\ \A p \in Procs :
           GivesUp(p) =>
             /\ fails'[p] = maxAttempts
             /\ cache' = cache
             /\ cacheTimestampMs' = cacheTimestampMs
             /\ Gen(cache, cacheTimestampMs) = seenGen[p] =>
                  (Len(cache') = 0 \/ now' - cacheTimestampMs' > ttlMs')
      /\ \A c \in Callers :
           (CallStarts(c) /\ LastRefreshGaveUp) =>
             /\ pc'[c] = "await"
             /\ lp'[c] = "fetch"
             /\ attempt'[c] = 1
             /\ runs'[c] = 1
             /\ fetches'[c] = 1
    ]_vars

\* The first caller found [Aave] too old, failed 5 times and answered from
\* it; the second, called afterwards, found the same generation and is at
\* the third attempt of its own refresh.
C34_Witness ==
  /\ Answered("c1")
  /\ lp["c1"] = "gaveup" /\ fails["c1"] = maxAttempts
  /\ seenGen["c1"].list = <<rAave>>
  /\ seenGen["c2"] = seenGen["c1"]
  /\ cacheTimestampMs = seenGen["c1"].ts
  /\ pc["c2"] = "await"
  /\ runs["c2"] = 1 /\ attempt["c2"] = 3 /\ fails["c2"] = 2

\* The positions of the chain's log that hold a request of the kind.
RequestsOf(ch, kind) == {i \in 1..Len(sent[ch]) : sent[ch][i].kind = kind}

\* C35: within one chain fetch the native-balance request is issued only
\* after the token-balance request has succeeded: it is the second request
\* of the log and the first, the token-balance request, was answered "ok"
\* before it.  When the token-balance request fails (non-success status,
\* RPC error, unparsable body or exception) no native-balance request is
\* made and the chain result is empty; when the native-balance request
\* throws, the tokens already fetched are discarded: no request is made
\* for any of them and the chain result is empty.
C35_NativeAfterTokens ==
  \A ch \in ChainSet :
    /\ \A i \in RequestsOf(ch, "native") :
         /\ i = 2
         /\ sent[ch][1] = Req("tokens", NoAddress)
         /\ Len(got[ch]) >= 1 /\ got[ch][1] = "ok"
    /\ \A i \in RequestsOf(ch, "tokens") : i = 1
    /\ (Len(got[ch]) >= 1 /\ got[ch][1] # "ok") =>
         /\ RequestsOf(ch, "native") = {}
         /\ Len(sent[ch]) = 1
         /\ cpc[ch] = "returned"
         /\ balances[ch] = <<>> /\ chainResult[ch] = <<>>
    /\ (Len(got[ch]) >= 2 /\ got[ch][2] \in ThrownKinds) =>
         /\ Len(sent[ch]) = 2
         /\ cpc[ch] = "returned"
         /\ balances[ch] = <<>> /\ chainResult[ch] = <<>>

\* The token-balance request returned [A, bad, B], the native-balance
\* request threw: nothing was asked about A or B and the chain contributes
\* nothing to the finished snapshot.
C35_Witness ==
  \E ch \in ChainSet :
    /\ tokenBalances[ch] = <<tokA, tokBad, tokB>>
    /\ got[ch] = <<"ok", "throw">>
    /\ sent[ch] = <<Req("tokens", NoAddress), Req("native", NoAddress)>>
    /\ chainResult[ch] = <<>>
    /\ hpc = "done"
    /\ outcome.success /\ outcome.data.tokenCount = 0

\* The outcome for a wallet in which nothing was found.
NothingData(addr) ==
  [actionName |-> "WALLET_INFO", address |-> addr, totalBalance |-> 0,
   tokenCount |-> 0, tokens |-> <<>>]

NothingFound(addr) ==
  [success |-> TRUE, kind |-> "portfolio",
   text |-> <<Line("Wallet Portfolio", <<>>), Line("Address", <<addr>>),
              Line("Total Balance", <<0>>), NoTokensLine>>,
   byChain |-> <<>>, data |-> NothingData(addr), values |-> NothingData(addr)]

\* The chain is not configured, or its token-balance request failed, or its
\* native-balance request threw.
ChainDown(ch) ==
  \/ ch \notin rpcConfigured
  \/ Len(got[ch]) >= 1 /\ got[ch][1] # "ok"
  \/ Len(got[ch]) >= 2 /\ got[ch][2] \in ThrownKinds

\* Both requests of the chain were answered and the wallet holds nothing
\* there: no token with a balance, no native balance.
ChainHoldsNothing(ch) ==
  /\ ch \in rpcConfigured
  /\ got[ch] = <<"ok", "ok">>
  /\ PricedTokens(ch) = {}
  /\ nativeAmount[ch] = 0

\* C36: the handler cannot tell a total failure of its sources from an
\* empty wallet.  When every chain fetch failed or was skipped as
\* unconfigured the outcome is success with no tokens, total 0 and the "No
\* tokens found" line, the very outcome (text, data and callback payload)
\* of a wallet that holds nothing on any chain; and the fallback with
\* success false is never the result of chain failures: it is produced only
\* when the handler itself fails, here on a missing wallet address.
C36_TotalFailureLooksLikeEmptyWallet ==
  hpc = "done" =>
    /\ (address = Address /\ \A ch \in ChainSet : ChainDown(ch)) =>
         /\ outcome = NothingFound(address)
         /\ LastCallback = Delivered(NothingFound(address))
    /\ (address = Address /\ \A ch \in ChainSet : ChainHoldsNothing(ch)) =>
         /\ outcome = NothingFound(address)
         /\ LastCallback = Delivered(NothingFound(address))
    /\ (~outcome.success \/ outcome.kind = "fallback") => address = Undefined

\* One chain is not configured, the token-balance request of another threw,
\* the native-balance request of the third threw: the outcome is that of an
\* empty wallet.
C36_Witness ==
  /\ hpc = "done"
  /\ address = Address
  /\ rpcConfigured = {"base", "polygon"}
  /\ got["base"] = <<"throw">>
  /\ got["polygon"] = <<"ok", "throw">>
  /\ tokenBalances["polygon"] = <<tokA>>
  /\ outcome = NothingFound(Address)
  /\ HasLine(outcome.text, NoTokensLine.kind)

\* Every chain is configured and answered, and the wallet holds nothing:
\* the same outcome.
C36_EmptyWalletReached ==
  /\ hpc = "done"
  /\ address = Address
  /\ \A ch \in ChainSet : ChainHoldsNothing(ch)
  /\ outcome = NothingFound(Address)

\* ------------------------------------------------------------------------
\* Chat interface: history loads and socket messages in every order
\* ------------------------------------------------------------------------
NextChat ==
  \/ \E m \in MsgPool : Post(m)
  \/ LoadStart
  \/ \E history \in loads : LoadDone(history)
  \/ \E history \in loads : LoadFail(history)
  \/ \E m \in MsgPool : handleNewMessage(m)

SpecChat == Init /\ [][NextChat]_vars

IsSortedAsc(msgs) ==
  \A i, j \in 1..Len(msgs) : i < j => msgs[i].createdAt <= msgs[j].createdAt
UniqueIds(msgs) ==
  \A i, j \in 1..Len(msgs) : msgs[i].id = msgs[j].id => i = j

\* C37: after any sequence of history loads and incoming socket messages
\* the displayed list is sorted by ascending createdAt, holds no two
\* messages with the same id, and holds every message the socket has
\* delivered: an incoming message with a new id is added and stays.
C37_SortedUniqueAndNothingLost ==
  /\ IsSortedAsc(messages)
  /\ UniqueIds(messages)
  /\ \A id \in received : HasId(messages, id)

\* What does hold of the code: the list is always sorted and free of
\* duplicate ids (the channel's history has none).
C37_SortedAndUnique == IsSortedAsc(messages) /\ UniqueIds(messages)

\* What does hold of the code: an incoming message whose id is in the list
\* leaves the list unchanged, one with a new id is in the list right after
\* it was handled.
C37_IncomingAddsOnce ==
  [][ nIncoming' = nIncoming + 1 =>
        /\ \A i \in 1..Len(messages) : HasId(messages', messages[i].id)
        /\ \A id \in received' \ received : HasId(messages', id)
        /\ \/ messages' = messages
           \/ \E m \in MsgPool :
                /\ ~HasId(messages, m.id)
                /\ HasId(messages', m.id)
                /\ Len(messages') = Len(messages) + 1
    ]_vars

====
